---- MODULE Spec2Model ----
(***************************************************************************)
(* Message-orchestration core of the conversational agent:                 *)
(* SendMessageUseCase.execute with its collaborators (InMemoryStore,       *)
(* ConversationManager, ToolRegistry, calendar-intent parser, AIService)   *)
(* and the WebSocket handler that drives it.                               *)
(*                                                                         *)
(* Strings are sequences of atoms.  User texts, tool names and file names  *)
(* are sequences of one-character strings.  A fixed literal of the program *)
(* (a reply prefix, an apology) is written with its punctuation as         *)
(* characters and each run of words that holds no document keyword as one  *)
(* atom; accents are dropped.                                              *)
(***************************************************************************)
EXTENDS Integers, Sequences, FiniteSets, TLC

(***************************************************************************)
(* Bounds of the model.                                                    *)
(***************************************************************************)
MaxInv == 2
MaxChunks == 2
MaxStoreOps == 2
MaxConns == 2
MaxErrorFrames == 2
MaxSubs == 4
MaxQueue == 2
MaxTasks == 2
MaxLogins == 3
MaxPdfMsgs == 4
MaxPdfDocs == 2

(***************************************************************************)
(* Characters and Python string helpers.                                   *)
(***************************************************************************)
\* the characters used here that \w of the re module does not match; every
\* other atom is a letter, a digit or a run of letters holding no keyword
NonWordChars == {":", " ", "\n", "\t", ".", "-", "?", ",", "(", ")", "[", "]"}

WordChar(ch) == ch \notin NonWordChars

\* [a-zA-Z0-9_\-]
NameChar(ch) == WordChar(ch) \/ ch = "-"

\* \s of the re module, and the characters str.strip() removes
Space(ch) == ch \in {" ", "\n", "\t"}

\* str.lower() on one character
LowerCh(ch) == CASE ch = "P" -> "p"
                 [] ch = "D" -> "d"
                 [] ch = "F" -> "f"
                 [] ch = "C" -> "c"
                 [] ch = "I'" -> "i'"
                 [] OTHER -> ch

Lower(s) == [k \in 1..Len(s) |-> LowerCh(s[k])]

\* str.strip()
Strip(s) ==
    LET keep == {k \in 1..Len(s) : ~Space(s[k])}
    IN  IF keep = {} THEN <<>>
        ELSE LET lo == CHOOSE k \in keep : \A j \in keep : k <= j
                 hi == CHOOSE k \in keep : \A j \in keep : k >= j
             IN  SubSeq(s, lo, hi)

\* needle in haystack (substring test)
Contains(hay, needle) ==
    \E k \in 0..(Len(hay) - Len(needle)) :
        \A j \in 1..Len(needle) : hay[k + j] = needle[j]

RECURSIVE Concat(_)
\* "".join(parts)
Concat(parts) == IF parts = <<>> THEN <<>> ELSE Head(parts) \o Concat(Tail(parts))

(***************************************************************************)
(* re.match(r"^tool:(?P<name>[a-zA-Z0-9_\-]+)\s*[: ]\s*(?P<query>.+)$").   *)
(* The name is the maximal run of name characters after "tool:" (no        *)
(* separator is a name character, so backtracking never shortens it).      *)
(* Both \s* are greedy and backtrack; "." excludes the newline, and "$"    *)
(* matches at the end or before one final newline.                         *)
(***************************************************************************)
ToolPrefix == <<"t", "o", "o", "l", ":">>

NoMatch == [matched |-> FALSE]

NameEnd(text) ==
    CHOOSE e \in 5..Len(text) :
        /\ \A k \in 6..e : NameChar(text[k])
        /\ (e = Len(text) \/ ~NameChar(text[e + 1]))

\* last index the group "query" may end at: "$"
QueryEnd(text) ==
    IF text[Len(text)] = "\n" THEN Len(text) - 1 ELSE Len(text)

\* <<s, q>>: the separator is text[s], the query starts at text[q]
ToolSplits(text) ==
    LET e == NameEnd(text)
        n == Len(text)
    IN  {sq \in ((e + 1)..n) \X ((e + 2)..n) :
            /\ \A k \in (e + 1)..(sq[1] - 1) : Space(text[k])
            /\ text[sq[1]] \in {":", " "}
            /\ sq[2] > sq[1]
            /\ \A k \in (sq[1] + 1)..(sq[2] - 1) : Space(text[k])
            /\ sq[2] <= QueryEnd(text)
            /\ \A k \in sq[2]..QueryEnd(text) : text[k] # "\n"}

\* the split a backtracking matcher finds first: longest first \s*, then
\* longest second \s*
GreedySplit(S) ==
    CHOOSE sq \in S : \A o \in S : o[1] < sq[1] \/ (o[1] = sq[1] /\ o[2] <= sq[2])

ToolMatch(text) ==
    IF Len(text) < 6 \/ SubSeq(text, 1, 5) # ToolPrefix \/ ~NameChar(text[6])
    THEN NoMatch
    ELSE IF ToolSplits(text) = {} THEN NoMatch
    ELSE LET sq == GreedySplit(ToolSplits(text))
         IN  [matched |-> TRUE,
              name |-> Strip(SubSeq(text, 6, NameEnd(text))),
              query |-> Strip(SubSeq(text, sq[2], QueryEnd(text)))]


(***************************************************************************)
(* Inputs.                                                                 *)
(***************************************************************************)
Users == {"u1", "u2"}

Inv == 1..MaxInv

\* conversation ids a caller may name: none (0), conv_1
ConvArgs == {0, 1, 2}

T_saludo == <<"h", "i">>
T_tool_echo == <<"t", "o", "o", "l", ":", "e", ":", "h", "i">>
T_tool_space == <<"t", "o", "o", "l", ":", "e", " ", "h", "i">>
T_tool_unknown == <<"t", "o", "o", "l", ":", "x", ":", "h", "i">>
T_tool_multiline == <<"t", "o", "o", "l", ":", "e", ":", "h", "\n", "i">>
T_pdf == <<"e", "l", " ", "P", "D", "F">>
T_notes == <<"l", "e", "e", " ", "n", "o", "t", "e", "s">>

Texts == {T_saludo, T_tool_echo, T_tool_space, T_tool_unknown, T_pdf}

EchoName == <<"e">>
CalendarName == <<"c", "a", "l", "e", "n", "d", "a", "r">>
PdfName == <<"p", "d", "f">>

\* registries: the test's (echo only) and the application's with echo added
Registries == {{EchoName}, {EchoName, CalendarName, PdfName}}

\* the k-th fragment of a generation stream (the stub generator of the tests
\* yields "hola", " mundo")
ChunkAt(k) == IF k = 1 THEN <<"hola">> ELSE IF k = 2 THEN <<" ", "mundo">> ELSE <<"!">>

Filenames == {<<"n", "o", "t", "e", "s">>}

(***************************************************************************)
(* Fixed replies of SendMessageUseCase.                                    *)
(***************************************************************************)
CompletionMarker == <<"\n", "[", "Respuesta finalizada", "]">>

ResolveApology == <<"Error interno al iniciar la conversacion", ".", " ", "Intenta nuevamente", ".">>

ToolOuterApology == <<"Ocurrio un error al ejecutar la herramienta solicitada", ".">>

CalendarApology == <<"No pude procesar la accion de calendario por un error interno", ".">>

GenerationApology == <<"Ocurrio un error al generar la respuesta", ".", " ", "Intenta nuevamente", ".">>

NotFoundMarker == <<"Herramienta no encontrada", ":", " ">>

ToolErrorReply(name) == <<"Error al ejecutar la herramienta", " ">> \o name \o <<".">>

\* a lookup miss reported with the wording of a failed execution
ToolNotFoundReply_AsError(name) == ToolErrorReply(name)

ToolNotFoundReply(name) == NotFoundMarker \o name

ToolResultReply(name, result) ==
    <<"Resultado de herramienta", " ", "(">> \o name \o <<")", ":", " ">> \o result

\* EchoTool.execute of the tests
EchoResult(query) == <<"o", "k", ":">> \o query

(***************************************************************************)
(* Dates, times and instants of calendar_nlp.  A date string is an integer *)
(* year * YearLen + day-of-year; a time string is an hour; an instant is   *)
(* hours since the start of year 0 in UTC.  NoDate / NoTime stand for a    *)
(* null or missing field, BadDate / BadTime for a string that does not     *)
(* parse.                                                                  *)
(***************************************************************************)
YearLen == 4
HoursPerDay == 24
MadridOffset == 1
ThisYear == 1
TodayDoy == 1

NoDate == -1
BadDate == -2
NoTime == -1
BadTime == -2
NoInstant == -1000
NoId == 0
NullStr == <<"null">>

DateOf(y, d) == y * YearLen + d
Today == DateOf(ThisYear, TodayDoy)

\* the last day label is the 29th of February, which only a leap year has
LeapDay == YearLen - 1
IsLeap(y) == y % 4 = 0

\* date.fromisoformat accepts the string
ParsesAsDate(date) ==
    date >= 0 /\ (date % YearLen = LeapDay => IsLeap(date \div YearLen))

\* date.replace(year=y) of a date with day label d raises ValueError
ReplaceYearRaises(d, y) == d = LeapDay /\ ~IsLeap(y)

\* truthiness of an optional string field
Given(v) == v # NoDate

\* _start_of_day
StartOfDay(date) == IF ~ParsesAsDate(date) THEN NoInstant ELSE date * HoursPerDay

\* _combine_date_time_europe_madrid
CombineMadrid(date, time) ==
    IF date = NoDate \/ time = NoTime THEN NoInstant
    ELSE IF ~ParsesAsDate(date) \/ time = BadTime THEN NoInstant
    ELSE date * HoursPerDay + time - MadridOffset

\* datetime.date() of a UTC instant, and its hour
DateOfInstant(t) == t \div HoursPerDay
HourOfInstant(t) == t % HoursPerDay

\* _adjust_date_if_year_missing raises: the two date.replace calls stand
\* outside the try that guards fromisoformat
AdjustDateRaises(date) ==
    /\ ParsesAsDate(date)
    /\ \/ ReplaceYearRaises(date % YearLen, ThisYear)
       \/ /\ DateOf(ThisYear, date % YearLen) < Today
          /\ ReplaceYearRaises(date % YearLen, ThisYear + 1)

\* _adjust_date_if_year_missing, when it returns
AdjustDateIfYearMissing(date) ==
    IF ~ParsesAsDate(date) THEN NoDate
    ELSE LET candidate == DateOf(ThisYear, date % YearLen)
         IN  IF candidate < Today THEN DateOf(ThisYear + 1, date % YearLen) ELSE candidate

DigitChars == {"0", "1", "2", "3", "4", "5", "6", "7", "8", "9"}

\* _user_mentions_year: re.search(r"\b(19|20)\d{2}\b", text)
UserMentionsYear(text) ==
    \E k \in 0..(Len(text) - 4) :
        /\ <<text[k + 1], text[k + 2]>> \in {<<"1", "9">>, <<"2", "0">>}
        /\ text[k + 3] \in DigitChars /\ text[k + 4] \in DigitChars
        /\ (k = 0 \/ ~WordChar(text[k]))
        /\ (k + 4 = Len(text) \/ ~WordChar(text[k + 5]))

\* the inner _adjust(field) and the update.date branch
AdjustField(date) ==
    IF ~Given(date) THEN date
    ELSE IF AdjustDateIfYearMissing(date) # NoDate THEN AdjustDateIfYearMissing(date)
    ELSE date

\* _normalize_intent_dates raises: one of the fields it adjusts does
NormalizeRaises(intent, user_text) ==
    /\ ~UserMentionsYear(user_text)
    /\ \E date \in {intent.date, intent.range_start, intent.range_end, intent.update.date} :
            Given(date) /\ AdjustDateRaises(date)

\* _normalize_intent_dates, when it returns
NormalizeIntentDates(intent, user_text) ==
    IF UserMentionsYear(user_text) THEN intent
    ELSE [intent EXCEPT !.date = AdjustField(@),
                        !.range_start = AdjustField(@),
                        !.range_end = AdjustField(@),
                        !.update = [@ EXCEPT !.date = AdjustField(@)]]

(***************************************************************************)
(* The calendar collaborator (GoogleCalendarTool): the events of the       *)
(* calendar, listed by start time.                                         *)
(***************************************************************************)
NoEvent == [id |-> NoId, title |-> <<>>, starts_at |-> NoInstant, ends_at |-> NoInstant]

\* list_events: orderBy startTime
RECURSIVE InsertByStart(_, _)
InsertByStart(events, e) ==
    IF events = <<>> THEN <<e>>
    ELSE IF Head(events).starts_at <= e.starts_at
         THEN <<Head(events)>> \o InsertByStart(Tail(events), e)
         ELSE <<e>> \o events

RECURSIVE RemoveIds(_, _)
RemoveIds(events, ids) ==
    IF events = <<>> THEN <<>>
    ELSE IF Head(events).id \in ids THEN RemoveIds(Tail(events), ids)
    ELSE <<Head(events)>> \o RemoveIds(Tail(events), ids)

EventIds(events) == {events[k].id : k \in 1..Len(events)}

EventById(events, id) ==
    IF id \in EventIds(events)
    THEN events[CHOOSE k \in 1..Len(events) : events[k].id = id]
    ELSE NoEvent

NextEventId(events) ==
    CHOOSE n \in 1..(Len(events) + 1) : n \notin EventIds(events)

\* _format_event
FormatEvent(e) ==
    <<"-", " ", ToString(e.id), ":", " ">> \o e.title
        \o <<" ", "(", ToString(e.starts_at), " ", "-", " ", ToString(e.ends_at), ")">>

RECURSIVE FormatEvents(_)
\* "\n".join(_format_event(event) for event in events)
FormatEvents(events) ==
    IF events = <<>> THEN <<>>
    ELSE IF Len(events) = 1 THEN FormatEvent(events[1])
    ELSE FormatEvent(events[1]) \o <<"\n">> \o FormatEvents(Tail(events))

\* the whole list, however long
FirstN_Whole(seq, n) == seq

\* seq[:n]
FirstN(seq, n) == SubSeq(seq, 1, IF Len(seq) < n THEN Len(seq) ELSE n)

\* NFD decomposition with the combining marks (category Mn) dropped; the
\* atoms "i'" and "I'" are the letters i and I carrying an acute accent
Unaccent(ch) == IF ch = "i'" THEN "i" ELSE IF ch = "I'" THEN "I" ELSE ch

\* titles compared as they are written
Normalize_AsWritten(title) == title

\* _normalize: lower case, accents stripped
Normalize(title) == [k \in 1..Len(title) |-> Unaccent(LowerCh(title[k]))]

\* the first of the filtered events whenever no title matches
FindEventByTitleDate_FirstOnly(events, title, date) ==
    LET OnDate(e) == DateOfInstant(e.starts_at) = date
        filtered == IF Given(date) /\ ParsesAsDate(date) THEN SelectSeq(events, OnDate)
                    ELSE events
        hits == {k \in 1..Len(filtered) :
                    Contains(Normalize(filtered[k].title), Normalize(title))}
    IN  IF events = <<>> THEN [kind |-> "none", event |-> NoEvent, list |-> <<>>]
        ELSE IF title # NullStr /\ title # <<>> /\ hits # {}
             THEN [kind |-> "one",
                   event |-> filtered[CHOOSE k \in hits : \A j \in hits : k <= j],
                   list |-> <<>>]
        ELSE IF Len(filtered) >= 1
             THEN [kind |-> "one", event |-> filtered[1], list |-> <<>>]
        ELSE [kind |-> "none", event |-> NoEvent, list |-> <<>>]

\* _find_event_by_title_date
FindEventByTitleDate(events, title, date) ==
    LET OnDate(e) == DateOfInstant(e.starts_at) = date
        filtered == IF Given(date) /\ ParsesAsDate(date) THEN SelectSeq(events, OnDate)
                    ELSE events
        hits == {k \in 1..Len(filtered) :
                    Contains(Normalize(filtered[k].title), Normalize(title))}
    IN  IF events = <<>> THEN [kind |-> "none", event |-> NoEvent, list |-> <<>>]
        ELSE IF title # NullStr /\ title # <<>> /\ hits # {}
             THEN [kind |-> "one",
                   event |-> filtered[CHOOSE k \in hits : \A j \in hits : k <= j],
                   list |-> <<>>]
        ELSE IF Len(filtered) = 1
             THEN [kind |-> "one", event |-> filtered[1], list |-> <<>>]
        ELSE IF Len(filtered) > 1
             THEN [kind |-> "many", event |-> NoEvent, list |-> filtered]
        ELSE [kind |-> "none", event |-> NoEvent, list |-> <<>>]

(***************************************************************************)
(* Intents: what the intent-classification call may answer.                *)
(***************************************************************************)
NoUpdate == [title |-> NullStr, date |-> NoDate, start_time |-> NoTime, end_time |-> NoTime]

NoIntent == [action |-> "none", title |-> NullStr, date |-> NoDate, start_time |-> NoTime,
             end_time |-> NoTime, event_id |-> NoId, range_start |-> NoDate,
             range_end |-> NoDate, update |-> NoUpdate]

Title_cita == <<"c", "i", "t", "a">>

Intents ==
    {NoIntent,
     [NoIntent EXCEPT !.action = "null"],
     [NoIntent EXCEPT !.action = ""],
     [NoIntent EXCEPT !.action = "remind"],
     [NoIntent EXCEPT !.action = "#number"],
     [NoIntent EXCEPT !.action = "CREATE", !.title = Title_cita,
                      !.date = DateOf(ThisYear, 2), !.start_time = 10],
     [NoIntent EXCEPT !.action = "create", !.title = Title_cita],
     [NoIntent EXCEPT !.action = "list"],
     [NoIntent EXCEPT !.action = "delete", !.title = Title_cita],
     [NoIntent EXCEPT !.action = "edit", !.title = Title_cita,
                      !.update = [NoUpdate EXCEPT !.start_time = 11]]}

\* the text the generation call returns: a JSON object alone or inside
\* prose, a JSON value that is no object, or no JSON at all
RawOutputs ==
    [form : {"json", "prose_json"}, value : {"object"}, intent : Intents]
        \cup [form : {"empty", "prose", "broken"}, value : {"none"}, intent : {NoIntent}]
        \cup [form : {"json"}, value : {"empty_object", "number"}, intent : {NoIntent}]

\* the text of an answer, token by token: the braces, the members of the
\* intent object ("body"), a number literal, and words of prose ("w")
RawText(raw) ==
    LET value == CASE raw.value = "object" -> <<"{", "body", "}">>
                   [] raw.value = "empty_object" -> <<"{", "}">>
                   [] raw.value = "number" -> <<"5">>
                   [] OTHER -> <<>>
    IN  CASE raw.form = "json" -> value
          [] raw.form = "prose_json" -> <<"w">> \o value \o <<"w">>
          [] raw.form = "prose" -> <<"w", "w">>
          [] raw.form = "broken" -> <<"{", "body">>
          [] raw.form = "reversed" -> <<"}", "w", "{">>
          [] raw.form = "braced_prose" -> <<"{", "w", "}">>
          [] OTHER -> <<>>

\* json.loads: the value decoded, "error" for JSONDecodeError
JsonLoads(text) ==
    IF text = <<"{", "body", "}">> THEN "object"
    ELSE IF text = <<"{", "}">> THEN "empty_object"
    ELSE IF text = <<"5">> THEN "number"
    ELSE "error"

\* _extract_json_from_text: from the first "{" to the last "}", <<>> for None
ExtractJsonFromText(text) ==
    LET opens == {k \in 1..Len(text) : text[k] = "{"}
        closes == {k \in 1..Len(text) : text[k] = "}"}
        start == CHOOSE k \in opens : \A j \in opens : k <= j
        end == CHOOSE k \in closes : \A j \in closes : j <= k
    IN  IF opens = {} \/ closes = {} THEN <<>>
        ELSE IF end <= start THEN <<>>
        ELSE SubSeq(text, start, end)

\* json.loads alone, with no second attempt on the extracted text
ParseCalendarIntent_NoExtraction(raw) ==
    IF JsonLoads(RawText(raw)) = "error" THEN "none" ELSE JsonLoads(RawText(raw))

\* _parse_calendar_intent with _extract_json_from_text
ParseCalendarIntent(raw) ==
    LET text == RawText(raw)
        extracted == ExtractJsonFromText(text)
    IN  IF text = <<>> THEN "none"
        ELSE IF JsonLoads(text) # "error" THEN JsonLoads(text)
        ELSE IF extracted = <<>> THEN "none"
        ELSE IF JsonLoads(extracted) = "error" THEN "none"
        ELSE JsonLoads(extracted)

InitialEvents ==
    <<[id |-> 1, title |-> Title_cita, starts_at |-> Today * HoursPerDay + 9,
       ends_at |-> Today * HoursPerDay + 10]>>

\* a failing call of the calendar collaborator
NoFault == [list |-> FALSE, create |-> FALSE, update |-> FALSE, delete |-> {}]

Faults == {NoFault,
           [NoFault EXCEPT !.list = TRUE],
           [NoFault EXCEPT !.create = TRUE],
           [NoFault EXCEPT !.update = TRUE],
           [NoFault EXCEPT !.delete = {1}]}

\* the faults that can show in answering raw: those of the calls its action makes
FaultsFor(raw) ==
    IF raw.value # "object" THEN {NoFault}
    ELSE {f \in Faults :
            \/ f = NoFault
            \/ f.list /\ raw.intent.action \in {"list", "delete", "edit"}
            \/ f.create /\ raw.intent.action \in {"create", "CREATE"}
            \/ f.update /\ raw.intent.action = "edit"
            \/ f.delete # {} /\ raw.intent.action = "delete"}

Truthy(str) == str # NullStr /\ str # <<>>

ParserReply(reply, events, done) ==
    [kind |-> "reply", reply |-> reply, events |-> events, calls |-> done]

\* return "" where the parser returns None
ParserNone_EmptyReply(events, done) == ParserReply(<<>>, events, done)

ParserNone(events, done) == [kind |-> "none", reply |-> <<>>, events |-> events, calls |-> done]
ParserRaise(events, done) == [kind |-> "raise", reply |-> <<>>, events |-> events, calls |-> done]

\* the range of the list and delete actions: <<start_dt, end_dt>>
IntentRange(intent) ==
    LET start_dt == IF Given(intent.range_start) THEN StartOfDay(intent.range_start)
                    ELSE StartOfDay(intent.date)
        end_0 == IF Given(intent.range_end) THEN StartOfDay(intent.range_end) ELSE NoInstant
        end_dt == IF start_dt # NoInstant /\ end_0 # NoInstant THEN end_0 + HoursPerDay
                  ELSE IF start_dt # NoInstant THEN start_dt + HoursPerDay
                  ELSE end_0
    IN  <<start_dt, end_dt>>

InRange(events, range) ==
    LET Within(e) == range[1] <= e.starts_at /\ e.starts_at < range[2]
    IN  SelectSeq(events, Within)

\* "Se eliminaron N eventos" after deleting each of to_delete in turn
BulkDelete(events, to_delete, fault) ==
    LET deleted == EventIds(to_delete) \ fault.delete
    IN  ParserReply(<<"Se eliminaron", " ", ToString(Cardinality(deleted)), " ", "eventos", ":", "\n">>
                        \o FormatEvents(to_delete),
                    RemoveIds(events, deleted),
                    [k \in 1..Len(to_delete) |-> "delete_event"])

\* action == "create"
HandleCreate(intent, events, fault) ==
    LET title == Strip(IF Truthy(intent.title) THEN intent.title ELSE <<"Evento">>)
        starts_at == CombineMadrid(intent.date, intent.start_time)
        ends_0 == IF intent.end_time # NoTime
                  THEN CombineMadrid(intent.date, intent.end_time) ELSE NoInstant
        ends_at == IF ends_0 = NoInstant THEN starts_at + 1 ELSE ends_0
        event == [id |-> NextEventId(events), title |-> title,
                  starts_at |-> starts_at, ends_at |-> ends_at]
    IN  IF ~Given(intent.date) \/ intent.start_time = NoTime
        THEN ParserReply(<<"Para agendar necesito fecha y hora", ".">>, events, <<>>)
        ELSE IF starts_at = NoInstant
        THEN ParserReply(<<"No pude interpretar la fecha u hora del evento", ".">>, events, <<>>)
        ELSE IF fault.create
        THEN ParserReply(<<"No se pudo crear el evento", ".">>, events, <<"create_event">>)
        ELSE ParserReply(<<"Evento creado en Google Calendar", ":", "\n">> \o FormatEvent(event),
                         InsertByStart(events, event), <<"create_event">>)

\* action == "list"
HandleList(intent, events, fault) ==
    LET range == IntentRange(intent)
        day == StartOfDay(intent.date)
        shown == IF Given(intent.range_start) \/ Given(intent.range_end)
                 THEN IF range[1] # NoInstant /\ range[2] # NoInstant
                      THEN InRange(events, range) ELSE events
                 ELSE IF Given(intent.date) /\ day # NoInstant
                      THEN InRange(events, <<day, day + HoursPerDay>>)
                 ELSE events
    IN  IF fault.list THEN ParserRaise(events, <<"list_events">>)
        ELSE IF shown = <<>>
        THEN ParserReply(<<"No hay eventos en tu calendario para ese rango", ".">>,
                         events, <<"list_events">>)
        ELSE ParserReply(<<"Eventos proximos", ":", "\n">> \o FormatEvents(FirstN(shown, 10)),
                         events, <<"list_events">>)

\* the single delete_event(event_id) that ends action == "delete"
DeleteOne(events, event_id, fault, done) ==
    IF event_id \in fault.delete
    THEN ParserReply(<<"No se pudo eliminar el evento", ".">>, events, Append(done, "delete_event"))
    ELSE IF event_id \in EventIds(events)
    THEN ParserReply(<<"Evento eliminado", ":", " ", ToString(event_id), ".">>,
                     RemoveIds(events, {event_id}), Append(done, "delete_event"))
    ELSE ParserReply(<<"Evento no encontrado", ".">>, events, Append(done, "delete_event"))

\* action == "delete"
HandleDelete(intent, events, fault) ==
    LET range == IntentRange(intent)
        to_delete == IF range[1] # NoInstant /\ range[2] # NoInstant
                     THEN InRange(events, range) ELSE <<>>
        found == FindEventByTitleDate(events, intent.title, intent.date)
        listed == BulkDelete(events, found.list, fault)
        ranged == BulkDelete(events, to_delete, fault)
    IN  IF fault.list THEN ParserRaise(events, <<"list_events">>)
        ELSE IF Given(intent.range_start) \/ Given(intent.range_end)
        THEN IF to_delete = <<>>
             THEN ParserReply(<<"No hay eventos en ese rango para eliminar", ".">>,
                              events, <<"list_events">>)
             ELSE [ranged EXCEPT !.calls = <<"list_events">> \o @]
        ELSE IF intent.event_id # NoId
        THEN DeleteOne(events, intent.event_id, fault, <<"list_events">>)
        ELSE IF found.kind = "none"
        THEN ParserReply(<<"No pude identificar el evento", ".", " ", "Indica el id o mas detalles", ".">>,
                         events, <<"list_events">>)
        ELSE IF found.kind = "many"
        THEN [listed EXCEPT !.calls = <<"list_events">> \o @]
        ELSE DeleteOne(events, found.event.id, fault, <<"list_events">>)

\* GoogleCalendarTool.update_event: the patched event, NoEvent on a 404
UpdatedEvent(events, event_id, title, starts_at, ends_at) ==
    LET old == EventById(events, event_id)
    IN  IF old = NoEvent THEN NoEvent
        ELSE [id |-> event_id,
              title |-> IF title # NullStr THEN title ELSE old.title,
              starts_at |-> IF starts_at # NoInstant THEN starts_at ELSE old.starts_at,
              ends_at |-> IF ends_at # NoInstant THEN ends_at ELSE old.ends_at]

\* action == "edit"
HandleEdit(intent, events, fault) ==
    LET found == FindEventByTitleDate(events, intent.title, intent.date)
        event_id == IF intent.event_id # NoId THEN intent.event_id ELSE found.event.id
        target == IF intent.event_id # NoId THEN EventById(events, intent.event_id)
                  ELSE found.event
        upd == intent.update
        base_date == DateOfInstant(target.starts_at)
        starts_at ==
            IF target = NoEvent THEN NoInstant
            ELSE IF Given(upd.date) /\ upd.start_time # NoTime
                 THEN CombineMadrid(upd.date, upd.start_time)
            ELSE IF Given(upd.date)
                 THEN CombineMadrid(upd.date, HourOfInstant(target.starts_at))
            ELSE IF upd.start_time # NoTime
                 THEN CombineMadrid(base_date, upd.start_time)
            ELSE NoInstant
        ends_at ==
            IF target = NoEvent THEN NoInstant
            ELSE IF upd.end_time # NoTime
                 THEN CombineMadrid(IF Given(upd.date) THEN upd.date ELSE base_date, upd.end_time)
            ELSE IF starts_at # NoInstant THEN starts_at + 1
            ELSE NoInstant
        updated == UpdatedEvent(events, event_id, upd.title, starts_at, ends_at)
    IN  IF fault.list THEN ParserRaise(events, <<"list_events">>)
        ELSE IF intent.event_id = NoId /\ found.kind = "none"
        THEN ParserReply(<<"No pude identificar el evento", ".", " ", "Indica el id o mas detalles", ".">>,
                         events, <<"list_events">>)
        ELSE IF intent.event_id = NoId /\ found.kind = "many"
        THEN ParserReply(<<"Encontre varios eventos", ".", " ", "Indica el id para editar", ":", "\n">>
                             \o FormatEvents(FirstN(found.list, 5)),
                         events, <<"list_events">>)
        ELSE IF ~(Truthy(upd.title) \/ Given(upd.date) \/ upd.start_time # NoTime
                    \/ upd.end_time # NoTime)
        THEN ParserReply(<<"Indica que cambios deseas aplicar (titulo o fecha/hora)", ".">>,
                         events, <<"list_events">>)
        ELSE IF fault.update
        THEN ParserReply(<<"No se pudo actualizar el evento", ".">>,
                         events, <<"list_events", "update_event">>)
        ELSE IF updated = NoEvent
        THEN ParserReply(<<"Evento no encontrado", ".">>, events, <<"list_events", "update_event">>)
        ELSE ParserReply(<<"Evento actualizado", ":", "\n">> \o FormatEvent(updated),
                         InsertByStart(RemoveIds(events, {event_id}), updated),
                         <<"list_events", "update_event">>)

\* maybe_handle_calendar_llm from the answer of generate_messages on
HandleCalendarAnswer(raw, user_text, events, fault) ==
    LET parsed == ParseCalendarIntent(raw)
        intent == NormalizeIntentDates(raw.intent, user_text)
        action == IF intent.action = "CREATE" THEN "create" ELSE intent.action
    IN  IF parsed \in {"none", "empty_object"} THEN ParserNone(events, <<>>)
        ELSE IF parsed = "number" THEN ParserRaise(events, <<>>)
        ELSE IF NormalizeRaises(raw.intent, user_text) THEN ParserRaise(events, <<>>)
        ELSE IF action = "#number" THEN ParserRaise(events, <<>>)
        ELSE IF action \in {"none", "", "null"} THEN ParserNone(events, <<>>)
        ELSE IF action = "create" THEN HandleCreate(intent, events, fault)
        ELSE IF action = "list" THEN HandleList(intent, events, fault)
        ELSE IF action = "delete" THEN HandleDelete(intent, events, fault)
        ELSE IF action = "edit" THEN HandleEdit(intent, events, fault)
        ELSE ParserNone(events, <<>>)

(***************************************************************************)
(* State.                                                                  *)
(***************************************************************************)
Conns == 1..MaxConns

VARIABLES
    conversations,      \* InMemoryStore.conversations: id -> Conversation
    messages,           \* InMemoryStore.messages, in insertion order
    documents,          \* InMemoryStore.documents, in insertion order
    active_by_user,     \* ConversationManager._active_by_user
    events,             \* the calendar collaborator's events, by start time
    tool_registry,      \* ToolRegistry._tools (names)
    notify_on_complete, \* UseCaseConfig.notify_on_complete
    pc,                 \* where each invocation of execute is suspended
    req,                \* its arguments
    conv,               \* its resolved conversation id
    out,                \* the fragments it has yielded
    assistant_content,  \* its accumulated stream
    gen,                \* the fragments its generation stream has produced
    calls,              \* the collaborator calls it has made
    note,               \* what it decided at dispatch
    ops,                \* store operations performed through the API
    ws,                 \* the chat_ws handler of each connection
    subscriptions,      \* NotificationManager._subscriptions: id -> list
    subs,               \* the Subscription objects created so far
    tasks_by_conversation, \* ConversationManager._tasks_by_conversation
    tasks,              \* the asyncio tasks created so far: done or not
    users,              \* InMemoryStore.users: id -> User
    logins,             \* how many times AuthLoginUseCase.execute was called
    api,                \* the last use-case call and how it ended
    norm,               \* the last call of _normalize_intent_dates
    llm_stream,         \* a consumer's iteration of LLMService.stream_messages
    jwt,                \* the clock, the last token issued and its last decoding
    cal,                \* the last call of maybe_handle_calendar_llm made on its own
    prompt              \* the last call of a function of prompt_utils made on its own

storeVars == <<conversations, messages, documents, active_by_user, events>>
configVars == <<tool_registry, notify_on_complete>>
invVars == <<pc, req, conv, out, assistant_content, gen, calls, note>>
hubVars == <<subscriptions, subs>>
trackerVars == <<tasks_by_conversation, tasks>>
apiVars == <<users, logins, api>>
fnVars == <<norm, llm_stream, jwt, cal, prompt>>
vars == <<storeVars, configVars, invVars, ops, ws, hubVars, trackerVars, apiVars, fnVars>>

NoReq == [user |-> "", conversation_id |-> 0, text |-> <<>>]

\* a JWT: the claims of its payload.  has_sub tells whether the payload has
\* the claim sub
NoToken == [has_sub |-> FALSE, sub |-> "", exp |-> 0]

\* no token issued yet
NoJwt == [now |-> 0, issued |-> FALSE, issued_at |-> 0, token |-> NoToken,
          decoded |-> FALSE, decoded_at |-> 0, result |-> "", error |-> ""]

\* stream_messages not called yet
NoStream == [pc |-> "idle", response |-> <<>>, chunk_size |-> 1, idx |-> 0,
             fragments |-> <<>>]

\* no call of _normalize_intent_dates yet
NoNorm == [called |-> FALSE, intent |-> NoIntent, text |-> <<>>, raised |-> FALSE,
           result |-> NoIntent]

\* build_pdf_focus_context returned None
NoFocus == [kind |-> "none", doc |-> 0, block |-> <<>>]

\* no call of build_message_payload or build_pdf_focus_context yet
NoPrompt == [op |-> "", conversation_id |-> 0, n |-> 0, text |-> <<>>, payload |-> <<>>,
             focus |-> NoFocus]

\* no call of maybe_handle_calendar_llm yet
NoCal == [called |-> FALSE, raw |-> [form |-> "empty", value |-> "none", intent |-> NoIntent],
          text |-> <<>>, fault |-> NoFault, before |-> <<>>, reached |-> FALSE,
          intent |-> NoIntent, kind |-> "none", reply |-> <<>>, calls |-> <<>>]
NoNote == [pdf |-> "unset", parser |-> "unset", stream |-> "unset", tool |-> "unset"]

\* no frame of the client is being answered
NoFrame == [form |-> "none", text |-> NullStr, message |-> NullStr]

\* a connection nobody has opened: no handler runs
ClosedWs == [pc |-> "closed", user |-> "", conversation_id |-> 0, inv |-> 0,
             client_open |-> FALSE, task |-> "none", subscription |-> 0,
             notified |-> 0, sent |-> 0, finished |-> <<>>, errors |-> <<>>,
             frame |-> NoFrame]

\* no use-case call has been made
NoCall == [op |-> "", user |-> "", arg |-> 0, secret |-> "", result |-> ""]

Init ==
    /\ conversations = <<>>
    /\ messages = <<>>
    /\ documents = <<>>
    /\ active_by_user = <<>>
    /\ events = InitialEvents
    /\ tool_registry \in Registries
    /\ notify_on_complete \in BOOLEAN
    /\ pc = [i \in Inv |-> "idle"]
    /\ req = [i \in Inv |-> NoReq]
    /\ conv = [i \in Inv |-> 0]
    /\ out = [i \in Inv |-> <<>>]
    /\ assistant_content = [i \in Inv |-> <<>>]
    /\ gen = [i \in Inv |-> <<>>]
    /\ calls = [i \in Inv |-> <<>>]
    /\ note = [i \in Inv |-> NoNote]
    /\ ops = 0
    /\ ws = [k \in Conns |-> ClosedWs]
    /\ subscriptions = <<>>
    /\ subs = <<>>
    /\ tasks_by_conversation = <<>>
    /\ tasks = <<>>
    /\ users = <<>>
    /\ logins = 0
    /\ api = NoCall
    /\ norm = NoNorm
    /\ llm_stream = NoStream
    /\ jwt = NoJwt
    /\ cal = NoCal
    /\ prompt = NoPrompt

(***************************************************************************)
(* InMemoryStore and ConversationManager.                                  *)
(***************************************************************************)
\* store.conversations.get(conversation_id) is not None
Exists(convs, c) == c \in DOMAIN convs

\* InMemoryStore.add_message
AddMessage(msgs, convs, m) ==
    [messages |->
        IF \E k \in 1..Len(msgs) : msgs[k].id = m.id
        THEN [k \in 1..Len(msgs) |-> IF msgs[k].id = m.id THEN m ELSE msgs[k]]
        ELSE Append(msgs, m),
     conversations |->
        IF Exists(convs, m.conversation_id)
        THEN [convs EXCEPT ![m.conversation_id].message_ids = Append(@, m.id)]
        ELSE convs]

\* ids numbered within the role
NewMessage_PerRole(msgs, c, role, content, i) ==
    [id |-> Cardinality({k \in 1..Len(msgs) : msgs[k].role = role}) + 1,
     conversation_id |-> c, role |-> role, content |-> content, by |-> i]

\* Message(id=f"msg_{len(self._store.messages) + 1}", ...) of execute and
\* _persist_assistant_message; "by" records the invocation that built it
NewMessage(msgs, c, role, content, i) ==
    [id |-> Len(msgs) + 1, conversation_id |-> c, role |-> role, content |-> content, by |-> i]

\* _persist_assistant_message
PersistAssistantMessage(msgs, convs, c, content, i) ==
    AddMessage(msgs, convs, NewMessage(msgs, c, "assistant", content, i))

\* InMemoryStore.list_messages_by_conversation
MessagesOf(msgs, c) ==
    LET In(m) == m.conversation_id = c IN SelectSeq(msgs, In)

\* InMemoryStore.list_documents_by_conversation
DocumentsOf(docs, c) ==
    LET In(d) == d.conversation_id = c IN SelectSeq(docs, In)

\* the last n elements, none when n is 0
LastN_NoneForZero(seq, n) ==
    IF n <= 0 THEN <<>>
    ELSE IF Len(seq) <= n THEN seq ELSE SubSeq(seq, Len(seq) - n + 1, Len(seq))

\* seq[-n:]: the last n elements for a positive n; -0 is 0, so that n = 0
\* gives seq[0:], the whole list; a negative n gives seq[|n|:]
LastN(seq, n) ==
    IF n > 0 THEN IF Len(seq) <= n THEN seq ELSE SubSeq(seq, Len(seq) - n + 1, Len(seq))
    ELSE SubSeq(seq, 1 - n, Len(seq))

\* a pointer, once set, is kept
SetActive_FirstWins(active, u, c) ==
    IF u \in DOMAIN active THEN active
    ELSE [w \in DOMAIN active \cup {u} |-> IF w = u THEN c ELSE active[w]]

\* ConversationManager.set_active_conversation
SetActive(active, u, c) == [w \in DOMAIN active \cup {u} |-> IF w = u THEN c ELSE active[w]]

\* Conversation(id=f"conv_{len(self._store.conversations) + 1}", ...)
NewConversationId(convs) == Cardinality(DOMAIN convs) + 1

\* InMemoryStore.add_conversation
AddConversation(convs, c, u) ==
    [k \in DOMAIN convs \cup {c} |->
        IF k = c THEN [user_id |-> u, message_ids |-> <<>>] ELSE convs[k]]

\* ConversationManager.get_active_conversation: 0 when there is none
GetActiveConversation(convs, active, u) ==
    IF u \in DOMAIN active /\ Exists(convs, active[u]) THEN active[u] ELSE 0

\* ConversationManager.create_conversation
CreateConversation(convs, active, u) ==
    [id |-> NewConversationId(convs),
     conversations |-> AddConversation(convs, NewConversationId(convs), u),
     active |-> SetActive(active, u, NewConversationId(convs))]

\* the supplied id is ignored: the tracked conversation or a new one
ResolveConversation_IgnoresSupplied(convs, active, u, cid) ==
    IF GetActiveConversation(convs, active, u) # 0
    THEN [id |-> GetActiveConversation(convs, active, u),
          conversations |-> convs, active |-> active]
    ELSE CreateConversation(convs, active, u)

\* SendMessageUseCase._resolve_conversation
ResolveConversation(convs, active, u, cid) ==
    IF cid # 0
    THEN IF Exists(convs, cid)
         THEN [id |-> cid, conversations |-> convs, active |-> active]
         ELSE CreateConversation(convs, active, u)
    ELSE IF GetActiveConversation(convs, active, u) # 0
         THEN [id |-> GetActiveConversation(convs, active, u),
               conversations |-> convs, active |-> active]
         ELSE CreateConversation(convs, active, u)

(***************************************************************************)
(* prompt_utils: the document-focus predicate.                             *)
(***************************************************************************)
PdfKeywords == {<<"p", "d", "f">>,
                <<"d", "o", "c", "u", "m", "e", "n", "t", "o">>,
                <<"a", "r", "c", "h", "i", "v", "o">>,
                <<"f", "i", "c", "h", "e", "r", "o">>,
                <<"a", "d", "j", "u", "n", "t", "o">>}

\* is_pdf_query: re.search(r"\b(pdf|documento|archivo|fichero|adjunto)\b", text.lower())
IsPdfQuery(text) ==
    LET low == Lower(text)
    IN  \E kw \in PdfKeywords : \E k \in 0..(Len(low) - Len(kw)) :
            /\ \A j \in 1..Len(kw) : low[k + j] = kw[j]
            /\ (k = 0 \/ ~WordChar(low[k]))
            /\ (k + Len(kw) = Len(low) \/ ~WordChar(low[k + Len(kw) + 1]))

\* every message of the conversation counts, not the last three
ShouldUsePdfContext_AnyMessage(msgs, docs, c, user_text) ==
    LET conv_docs == DocumentsOf(docs, c)
        recent == MessagesOf(msgs, c)
    IN  \/ IsPdfQuery(user_text)
        \/ /\ conv_docs # <<>>
           /\ \/ \E k \in 1..Len(recent) : IsPdfQuery(recent[k].content)
              \/ \E k \in 1..Len(conv_docs) :
                    /\ conv_docs[k].filename # <<>>
                    /\ Contains(Lower(user_text), Lower(conv_docs[k].filename))

\* should_use_pdf_context
ShouldUsePdfContext(msgs, docs, c, user_text) ==
    LET conv_docs == DocumentsOf(docs, c)
        recent == LastN(MessagesOf(msgs, c), 3)
    IN  \/ IsPdfQuery(user_text)
        \/ /\ conv_docs # <<>>
           /\ \/ \E k \in 1..Len(recent) : IsPdfQuery(recent[k].content)
              \/ \E k \in 1..Len(conv_docs) :
                    /\ conv_docs[k].filename # <<>>
                    /\ Contains(Lower(user_text), Lower(conv_docs[k].filename))

(***************************************************************************)
(* SendMessageUseCase.execute, one action per stretch between two          *)
(* suspension points (an await that waits, or a yield).                    *)
(***************************************************************************)
Yield(i, fragment) == out' = [out EXCEPT ![i] = Append(@, fragment)]

\* lines 149-181: prompt and payload are built, the stream is opened and its
\* first fragment awaited
EnterGeneration(i) ==
    /\ pc' = [pc EXCEPT ![i] = "stream_wait"]
    /\ calls' = [calls EXCEPT ![i] = Append(@, "stream_messages")]
    /\ UNCHANGED <<out, assistant_content, gen>>

\* the intent classification call is made whatever the message is about
AsksCalendar_Always(pdf, registry) == CalendarName \in registry

\* line 122 with maybe_handle_calendar_llm lines 41-45: the intent
\* classification call is made
AsksCalendar(pdf, registry) == ~pdf /\ CalendarName \in registry

\* a call is turned away while another invocation on the same conversation
\* is in flight
Start_OneAtATime(i, u, cid, text) ==
    LET r == ResolveConversation(conversations, active_by_user, u, cid)
        user_message == NewMessage(messages, r.id, "user", text, i)
        s1 == AddMessage(messages, r.conversations, user_message)
        m == ToolMatch(text)
        pdf == ShouldUsePdfContext(s1.messages, documents, r.id, text)
        s2 == PersistAssistantMessage(s1.messages, s1.conversations, r.id,
                                      ToolNotFoundReply(m.name), i)
    IN  /\ pc[i] = "idle"
        /\ \A j \in Inv : j < i => pc[j] # "idle"
        /\ \A j \in Inv : conv[j] = r.id => pc[j] \in {"idle", "done", "abandoned", "cancelled"}
        /\ req' = [req EXCEPT ![i] = [user |-> u, conversation_id |-> cid, text |-> text]]
        /\ conv' = [conv EXCEPT ![i] = r.id]
        /\ active_by_user' = SetActive(r.active, u, r.id)
        /\ UNCHANGED <<documents, events, configVars, ops>>
        /\ IF m.matched /\ m.name \notin tool_registry
           THEN /\ messages' = s2.messages
                /\ conversations' = s2.conversations
                /\ Yield(i, ToolNotFoundReply(m.name))
                /\ pc' = [pc EXCEPT ![i] = "yield_reply"]
                /\ note' = [note EXCEPT ![i].tool = "notfound"]
                /\ UNCHANGED <<assistant_content, gen, calls>>
           ELSE /\ messages' = s1.messages
                /\ conversations' = s1.conversations
                /\ IF m.matched
                   THEN /\ pc' = [pc EXCEPT ![i] = "tool_wait"]
                        /\ calls' = [calls EXCEPT ![i] = Append(@, "tool_execute")]
                        /\ note' = [note EXCEPT ![i].tool = "called"]
                        /\ UNCHANGED <<out, assistant_content, gen>>
                   ELSE IF AsksCalendar(pdf, tool_registry)
                   THEN /\ pc' = [pc EXCEPT ![i] = "calendar_wait"]
                        /\ calls' = [calls EXCEPT ![i] = Append(@, "generate_messages")]
                        /\ note' = [note EXCEPT ![i].tool = "nomatch", ![i].pdf = "no",
                                                ![i].parser = "asked"]
                        /\ UNCHANGED <<out, assistant_content, gen>>
                   ELSE /\ note' = [note EXCEPT ![i].tool = "nomatch",
                                                ![i].pdf = IF pdf THEN "yes" ELSE "no",
                                                ![i].parser = IF pdf THEN "skipped" ELSE "none"]
                        /\ EnterGeneration(i)

\* lines 88-147 up to the first await that waits
Start(i, u, cid, text) ==
    LET r == ResolveConversation(conversations, active_by_user, u, cid)
        user_message == NewMessage(messages, r.id, "user", text, i)
        s1 == AddMessage(messages, r.conversations, user_message)
        m == ToolMatch(text)
        pdf == ShouldUsePdfContext(s1.messages, documents, r.id, text)
        s2 == PersistAssistantMessage(s1.messages, s1.conversations, r.id,
                                      ToolNotFoundReply(m.name), i)
    IN  /\ pc[i] = "idle"
        /\ \A j \in Inv : j < i => pc[j] # "idle"
        /\ req' = [req EXCEPT ![i] = [user |-> u, conversation_id |-> cid, text |-> text]]
        /\ conv' = [conv EXCEPT ![i] = r.id]
        /\ active_by_user' = SetActive(r.active, u, r.id)
        /\ UNCHANGED <<documents, events, configVars, ops>>
        /\ IF m.matched /\ m.name \notin tool_registry
           THEN /\ messages' = s2.messages
                /\ conversations' = s2.conversations
                /\ Yield(i, ToolNotFoundReply(m.name))
                /\ pc' = [pc EXCEPT ![i] = "yield_reply"]
                /\ note' = [note EXCEPT ![i].tool = "notfound"]
                /\ UNCHANGED <<assistant_content, gen, calls>>
           ELSE /\ messages' = s1.messages
                /\ conversations' = s1.conversations
                /\ IF m.matched
                   THEN /\ pc' = [pc EXCEPT ![i] = "tool_wait"]
                        /\ calls' = [calls EXCEPT ![i] = Append(@, "tool_execute")]
                        /\ note' = [note EXCEPT ![i].tool = "called"]
                        /\ UNCHANGED <<out, assistant_content, gen>>
                   ELSE IF AsksCalendar(pdf, tool_registry)
                   THEN /\ pc' = [pc EXCEPT ![i] = "calendar_wait"]
                        /\ calls' = [calls EXCEPT ![i] = Append(@, "generate_messages")]
                        /\ note' = [note EXCEPT ![i].tool = "nomatch", ![i].pdf = "no",
                                                ![i].parser = "asked"]
                        /\ UNCHANGED <<out, assistant_content, gen>>
                   ELSE /\ note' = [note EXCEPT ![i].tool = "nomatch",
                                                ![i].pdf = IF pdf THEN "yes" ELSE "no",
                                                ![i].parser = IF pdf THEN "skipped" ELSE "none"]
                        /\ EnterGeneration(i)

\* the user's message is stored before the conversation is resolved
StartResolveFails_StoresUserMessage(i, u, cid, text) ==
    /\ pc[i] = "idle"
    /\ \A j \in Inv : j < i => pc[j] # "idle"
    /\ req' = [req EXCEPT ![i] = [user |-> u, conversation_id |-> cid, text |-> text]]
    /\ messages' = Append(messages, NewMessage(messages, cid, "user", text, i))
    /\ Yield(i, ResolveApology)
    /\ pc' = [pc EXCEPT ![i] = "yield_reply"]
    /\ note' = [note EXCEPT ![i].tool = "unresolved"]
    /\ UNCHANGED <<conversations, documents, active_by_user, events, configVars, conv,
                   assistant_content, gen, calls, ops>>

\* lines 91-96: resolving the conversation raised
StartResolveFails(i, u, cid, text) ==
    /\ pc[i] = "idle"
    /\ \A j \in Inv : j < i => pc[j] # "idle"
    /\ req' = [req EXCEPT ![i] = [user |-> u, conversation_id |-> cid, text |-> text]]
    /\ Yield(i, ResolveApology)
    /\ pc' = [pc EXCEPT ![i] = "yield_reply"]
    /\ note' = [note EXCEPT ![i].tool = "unresolved"]
    /\ UNCHANGED <<storeVars, configVars, conv, assistant_content, gen, calls, ops>>

\* the tool's reply is yielded and never stored
ToolReturn_Unpersisted(i, raised) ==
    LET m == ToolMatch(req[i].text)
        reply == IF raised THEN ToolErrorReply(m.name)
                 ELSE ToolResultReply(m.name, EchoResult(m.query))
    IN  /\ pc[i] = "tool_wait"
        /\ Yield(i, reply)
        /\ pc' = [pc EXCEPT ![i] = "yield_reply"]
        /\ note' = [note EXCEPT ![i].tool = IF raised THEN "failed" ELSE "ok"]
        /\ UNCHANGED <<storeVars, configVars, req, conv, assistant_content, gen, calls, ops>>

\* a tool that raised counts as no tool response: the message goes on to
\* generic generation
ToolReturn_FallsThrough(i, raised) ==
    LET m == ToolMatch(req[i].text)
        reply == ToolResultReply(m.name, EchoResult(m.query))
        s == PersistAssistantMessage(messages, conversations, conv[i], reply, i)
    IN  /\ pc[i] = "tool_wait"
        /\ note' = [note EXCEPT ![i].tool = IF raised THEN "failed" ELSE "ok"]
        /\ UNCHANGED <<documents, active_by_user, events, configVars, req, conv, ops>>
        /\ IF raised
           THEN /\ EnterGeneration(i)
                /\ UNCHANGED <<messages, conversations>>
           ELSE /\ messages' = s.messages
                /\ conversations' = s.conversations
                /\ Yield(i, reply)
                /\ pc' = [pc EXCEPT ![i] = "yield_reply"]
                /\ UNCHANGED <<assistant_content, gen, calls>>

\* _maybe_call_tool lines 236-241, then lines 113-115: tool.execute returned
\* or raised
ToolReturn(i, raised) ==
    LET m == ToolMatch(req[i].text)
        reply == IF raised THEN ToolErrorReply(m.name)
                 ELSE ToolResultReply(m.name, EchoResult(m.query))
        s == PersistAssistantMessage(messages, conversations, conv[i], reply, i)
    IN  /\ pc[i] = "tool_wait"
        /\ messages' = s.messages
        /\ conversations' = s.conversations
        /\ Yield(i, reply)
        /\ pc' = [pc EXCEPT ![i] = "yield_reply"]
        /\ note' = [note EXCEPT ![i].tool = IF raised THEN "failed" ELSE "ok"]
        /\ UNCHANGED <<documents, active_by_user, events, configVars, req, conv,
                       assistant_content, gen, calls, ops>>

\* maybe_handle_calendar_llm lines 49-221, then lines 139-147: the intent
\* classification call returned
CalendarAnswer(i, raw, fault) ==
    LET o == HandleCalendarAnswer(raw, req[i].text, events, fault)
        reply == IF o.kind = "raise" THEN CalendarApology ELSE o.reply
        s == PersistAssistantMessage(messages, conversations, conv[i], reply, i)
    IN  /\ pc[i] = "calendar_wait"
        /\ events' = o.events
        /\ UNCHANGED <<documents, active_by_user, configVars, req, conv, ops>>
        /\ IF o.kind = "none"
           THEN /\ note' = [note EXCEPT ![i].parser = "none"]
                /\ pc' = [pc EXCEPT ![i] = "stream_wait"]
                /\ calls' = [calls EXCEPT ![i] = (@ \o o.calls) \o <<"stream_messages">>]
                /\ UNCHANGED <<messages, conversations, out, assistant_content, gen>>
           ELSE /\ note' = [note EXCEPT ![i].parser = o.kind]
                /\ messages' = s.messages
                /\ conversations' = s.conversations
                /\ Yield(i, reply)
                /\ pc' = [pc EXCEPT ![i] = "yield_reply"]
                /\ calls' = [calls EXCEPT ![i] = @ \o o.calls]
                /\ UNCHANGED <<assistant_content, gen>>

\* lines 139-147: the intent classification call raised
CalendarCallFails(i) ==
    LET s == PersistAssistantMessage(messages, conversations, conv[i], CalendarApology, i)
    IN  /\ pc[i] = "calendar_wait"
        /\ messages' = s.messages
        /\ conversations' = s.conversations
        /\ Yield(i, CalendarApology)
        /\ pc' = [pc EXCEPT ![i] = "yield_reply"]
        /\ note' = [note EXCEPT ![i].parser = "raise"]
        /\ UNCHANGED <<documents, active_by_user, events, configVars, req, conv,
                       assistant_content, gen, calls, ops>>

\* assistant_content = chunk where the code has assistant_content += chunk
StreamChunk_Overwrite(i, chunk) ==
    /\ pc[i] = "stream_wait"
    /\ Len(gen[i]) < MaxChunks
    /\ chunk = ChunkAt(Len(gen[i]) + 1)
    /\ gen' = [gen EXCEPT ![i] = Append(@, chunk)]
    /\ assistant_content' = [assistant_content EXCEPT ![i] = chunk]
    /\ Yield(i, chunk)
    /\ pc' = [pc EXCEPT ![i] = "yield_chunk"]
    /\ UNCHANGED <<storeVars, configVars, req, conv, calls, note, ops>>

\* lines 178-183: the stream produced a fragment
StreamChunk(i, chunk) ==
    /\ pc[i] = "stream_wait"
    /\ Len(gen[i]) < MaxChunks
    /\ chunk = ChunkAt(Len(gen[i]) + 1)
    /\ gen' = [gen EXCEPT ![i] = Append(@, chunk)]
    /\ assistant_content' = [assistant_content EXCEPT ![i] = @ \o chunk]
    /\ Yield(i, chunk)
    /\ pc' = [pc EXCEPT ![i] = "yield_chunk"]
    /\ UNCHANGED <<storeVars, configVars, req, conv, calls, note, ops>>

\* lines 194-198: the stream is exhausted
StreamEnd(i) ==
    LET s == PersistAssistantMessage(messages, conversations, conv[i], assistant_content[i], i)
    IN  /\ pc[i] = "stream_wait"
        /\ messages' = s.messages
        /\ conversations' = s.conversations
        /\ note' = [note EXCEPT ![i].stream = "ended"]
        /\ IF notify_on_complete
           THEN Yield(i, CompletionMarker) /\ pc' = [pc EXCEPT ![i] = "yield_marker"]
           ELSE UNCHANGED out /\ pc' = [pc EXCEPT ![i] = "done"]
        /\ UNCHANGED <<documents, active_by_user, events, configVars, req, conv,
                       assistant_content, gen, calls, ops>>

\* the stream's exception leaves execute
StreamFails_Propagates(i) ==
    /\ pc[i] = "stream_wait"
    /\ note' = [note EXCEPT ![i].stream = "failed"]
    /\ pc' = [pc EXCEPT ![i] = "raised"]
    /\ UNCHANGED <<storeVars, configVars, req, conv, out, assistant_content, gen, calls, ops>>

\* lines 185-189: the stream raised
StreamFails(i) ==
    LET s == PersistAssistantMessage(messages, conversations, conv[i], GenerationApology, i)
    IN  /\ pc[i] = "stream_wait"
        /\ messages' = s.messages
        /\ conversations' = s.conversations
        /\ note' = [note EXCEPT ![i].stream = "failed"]
        /\ Yield(i, GenerationApology)
        /\ pc' = [pc EXCEPT ![i] = "yield_reply"]
        /\ UNCHANGED <<documents, active_by_user, events, configVars, req, conv,
                       assistant_content, gen, calls, ops>>

\* the marker follows a streamed answer only, not a reply
Resume_NoMarkerAfterReply(i) ==
    /\ pc[i] \in {"yield_chunk", "yield_reply", "yield_marker"}
    /\ IF pc[i] = "yield_chunk"
       THEN UNCHANGED out /\ pc' = [pc EXCEPT ![i] = "stream_wait"]
       ELSE UNCHANGED out /\ pc' = [pc EXCEPT ![i] = "done"]
    /\ UNCHANGED <<storeVars, configVars, req, conv, assistant_content, gen, calls, note, ops>>

\* the caller asks for the next fragment: execute goes on after a yield
Resume(i) ==
    /\ pc[i] \in {"yield_chunk", "yield_reply", "yield_marker"}
    /\ IF pc[i] = "yield_chunk"
       THEN UNCHANGED out /\ pc' = [pc EXCEPT ![i] = "stream_wait"]
       ELSE IF pc[i] = "yield_reply" /\ notify_on_complete
       THEN Yield(i, CompletionMarker) /\ pc' = [pc EXCEPT ![i] = "yield_marker"]
       ELSE UNCHANGED out /\ pc' = [pc EXCEPT ![i] = "done"]
    /\ UNCHANGED <<storeVars, configVars, req, conv, assistant_content, gen, calls, note, ops>>

(***************************************************************************)
(* The REST use cases that change what execute reads.                      *)
(***************************************************************************)
\* ConversationUseCase.create
ApiCreateConversation(u) ==
    /\ ops < MaxStoreOps
    /\ ops' = ops + 1
    /\ conversations' = AddConversation(conversations, NewConversationId(conversations), u)
    /\ UNCHANGED <<messages, documents, active_by_user, events, configVars, invVars>>

\* ConversationUseCase.delete
ApiDeleteConversation(u, c) ==
    /\ ops < MaxStoreOps
    /\ Exists(conversations, c) /\ conversations[c].user_id = u
    /\ ops' = ops + 1
    /\ conversations' = [k \in DOMAIN conversations \ {c} |-> conversations[k]]
    /\ UNCHANGED <<messages, documents, active_by_user, events, configVars, invVars>>

\* DocumentUseCase.upload with PDFTool.add_document
UploadDocument(u, c, filename) ==
    /\ ops < MaxStoreOps
    /\ Exists(conversations, c) /\ conversations[c].user_id = u
    /\ ops' = ops + 1
    /\ documents' = Append(documents, [id |-> Len(documents) + 1, user_id |-> u,
                                       conversation_id |-> c, filename |-> filename])
    /\ UNCHANGED <<conversations, messages, active_by_user, events, configVars, invVars>>


(***************************************************************************)
(* NotificationManager.  subscriptions maps a conversation id to the list  *)
(* of its Subscription objects, each named by its index in subs; the queue *)
(* of a Subscription object outlives its registration.                     *)
(***************************************************************************)
Sentinel == "response_finished"

Range(seq) == {seq[k] : k \in 1..Len(seq)}

\* self._subscriptions.get(conversation_id, [])
Registered(hub, c) == IF c \in DOMAIN hub THEN hub[c] ELSE <<>>

\* list.remove: the list without the first element equal to x
RECURSIVE RemoveFirst(_, _)
RemoveFirst(seq, x) ==
    IF seq = <<>> THEN <<>>
    ELSE IF Head(seq) = x THEN Tail(seq)
    ELSE <<Head(seq)>> \o RemoveFirst(Tail(seq), x)

\* NotificationManager.subscribe
Subscribe(hub, objs, c) ==
    [id |-> Len(objs) + 1,
     subscriptions |-> [d \in DOMAIN hub \cup {c} |->
                            IF d = c THEN Append(Registered(hub, c), Len(objs) + 1)
                            ELSE hub[d]],
     subs |-> Append(objs, [conversation_id |-> c, queue |-> <<>>])]

\* every subscription of the conversation goes, as if two subscriptions on
\* one id were equal
Unsubscribe_All(hub, objs, s) ==
    [d \in DOMAIN hub \ {objs[s].conversation_id} |-> hub[d]]

\* NotificationManager.unsubscribe
Unsubscribe(hub, objs, s) ==
    LET c == objs[s].conversation_id
        items == Registered(hub, c)
    IN  IF s \notin Range(items) THEN hub
        ELSE IF RemoveFirst(items, s) = <<>>
             THEN [d \in DOMAIN hub \ {c} |-> hub[d]]
        ELSE [hub EXCEPT ![c] = RemoveFirst(items, s)]

\* the first subscriber of the conversation only
NotifyFinished_FirstOnly(hub, objs, c) ==
    [s \in 1..Len(objs) |->
        IF Registered(hub, c) # <<>> /\ s = Registered(hub, c)[1]
        THEN [objs[s] EXCEPT !.queue = Append(@, Sentinel)] ELSE objs[s]]

\* NotificationManager.notify_finished: the Subscription objects after it
NotifyFinished(hub, objs, c) ==
    [s \in 1..Len(objs) |->
        IF s \in Range(Registered(hub, c))
        THEN [objs[s] EXCEPT !.queue = Append(@, Sentinel)] ELSE objs[s]]

(***************************************************************************)
(* chat_ws: one handler per connection.  It subscribes, starts the         *)
(* notification task, and for each message of the client consumes execute  *)
(* inline, sending every fragment before asking for the next.              *)
(***************************************************************************)
\* lines 39-53: no token, a bad token, or a conversation that is missing or
\* another user's: the socket is closed with 1008 and nothing is registered
WsReject(k, u, c) ==
    /\ ws[k].pc = "closed"
    /\ ~(Exists(conversations, c) /\ conversations[c].user_id = u)
    /\ ws' = [ws EXCEPT ![k].pc = "rejected", ![k].user = u, ![k].conversation_id = c]
    /\ UNCHANGED <<storeVars, configVars, invVars, ops, hubVars>>

\* lines 39-75: the token names u, the conversation exists and is u's
WsConnect(k, u, c) ==
    LET r == Subscribe(subscriptions, subs, c)
    IN  /\ ws[k].pc = "closed"
        /\ Exists(conversations, c) /\ conversations[c].user_id = u
        /\ Len(subs) < MaxSubs
        /\ subscriptions' = r.subscriptions
        /\ subs' = r.subs
        /\ ws' = [ws EXCEPT ![k] = [pc |-> "receive", user |-> u, conversation_id |-> c,
                                    inv |-> 0, client_open |-> TRUE, task |-> "waiting",
                                    subscription |-> r.id, notified |-> 0,
                                    sent |-> 0, finished |-> <<>>, errors |-> <<>>,
                                    frame |-> NoFrame]]
        /\ UNCHANGED <<storeVars, configVars, invVars, ops>>

\* the client closes its end
ClientClose(k) ==
    /\ ws[k].pc \in {"receive", "consume", "send_error"}
    /\ ws[k].client_open
    /\ ws' = [ws EXCEPT ![k].client_open = FALSE]
    /\ UNCHANGED <<storeVars, configVars, invVars, ops, hubVars>>

\* lines 80-97: a message arrives and execute runs to its first suspension
WsReceive(k, i, text) ==
    /\ ws[k].pc = "receive"
    /\ ws[k].client_open
    /\ Start(i, ws[k].user, ws[k].conversation_id, text)
    /\ ws' = [ws EXCEPT ![k].pc = "consume", ![k].inv = i, ![k].sent = 0]
    /\ UNCHANGED hubVars

\* line 86: str(data.get("text") or data.get("message") or "").strip()
FrameText(frame) ==
    Strip(IF Truthy(frame.text) THEN frame.text
          ELSE IF Truthy(frame.message) THEN frame.message ELSE <<>>)

\* lines 84 and 88: the message of the error frame
ErrorMessage(frame) ==
    IF frame.form = "object" THEN "Texto vacio" ELSE "Payload invalido (JSON esperado)."

\* the handler leaves and its subscription stays registered
FinallyHub_Leaks(hub, objs, s) == hub

\* line 112
FinallyHub(hub, objs, s) == Unsubscribe(hub, objs, s)

\* lines 110-111
Finally(w) ==
    [w EXCEPT !.pc = "exited", !.inv = 0,
              !.task = IF w.task = "waiting" THEN "cancelled" ELSE w.task]

\* lines 80, 107-112: receive_text raises WebSocketDisconnect
WsDisconnected(k) ==
    /\ ws[k].pc = "receive"
    /\ ~ws[k].client_open
    /\ ws' = [ws EXCEPT ![k] = Finally(ws[k])]
    /\ subscriptions' = FinallyHub(subscriptions, subs, ws[k].subscription)
    /\ UNCHANGED <<storeVars, configVars, invVars, ops, subs>>

\* lines 93-99: send_text returns (the client has the frame, or the
\* transport does not report that the client is gone) and the loop asks
\* execute for the next fragment; sent counts the chunk frames of the message
WsForward(k) ==
    /\ ws[k].pc = "consume"
    /\ Resume(ws[k].inv)
    /\ ws' = [ws EXCEPT ![k].sent = @ + 1]
    /\ UNCHANGED hubVars

\* lines 99-103, 107-112: send_text raises because the client is gone; the
\* handler's own send_text in the except block raises too, the handler
\* leaves through finally, and execute stays suspended at its yield until
\* it is closed there
WsSendFails(k) ==
    /\ ws[k].pc = "consume"
    /\ ~ws[k].client_open
    /\ pc[ws[k].inv] \in {"yield_chunk", "yield_reply", "yield_marker"}
    /\ pc' = [pc EXCEPT ![ws[k].inv] = "abandoned"]
    /\ ws' = [ws EXCEPT ![k] = Finally(ws[k])]
    /\ subscriptions' = FinallyHub(subscriptions, subs, ws[k].subscription)
    /\ UNCHANGED <<storeVars, configVars, req, conv, out, assistant_content, gen,
                   calls, note, ops, subs>>

\* lines 77-112: the handler's task is cancelled at one of its awaits; the
\* CancelledError passes through an execute that is awaiting and leaves by
\* finally
WsCancelled(k) ==
    /\ ws[k].pc \in {"receive", "consume"}
    /\ IF ws[k].pc = "consume" /\ pc[ws[k].inv] # "done"
       THEN pc' = [pc EXCEPT ![ws[k].inv] = "cancelled"]
       ELSE UNCHANGED pc
    /\ ws' = [ws EXCEPT ![k] = Finally(ws[k])]
    /\ subscriptions' = FinallyHub(subscriptions, subs, ws[k].subscription)
    /\ UNCHANGED <<storeVars, configVars, req, conv, out, assistant_content, gen,
                   calls, note, ops, subs>>

\* line 106 with NotificationManager.notify_finished: execute is exhausted
WsNotifyFinished(k) ==
    /\ ws[k].pc = "consume"
    /\ pc[ws[k].inv] = "done"
    /\ subs' = NotifyFinished(subscriptions, subs, ws[k].conversation_id)
    /\ ws' = [ws EXCEPT ![k].pc = "receive", ![k].inv = 0,
                         ![k].finished = Append(@, ws[k].inv)]
    /\ UNCHANGED <<storeVars, configVars, invVars, ops, subscriptions>>

\* lines 80-97: receive_text returns a frame.  Text that is no JSON and an
\* object without text are answered with an error frame; JSON that is no
\* object has no get (line 86 raises AttributeError, which nothing catches)
\* and the handler leaves through finally; any other frame starts execute
WsReceiveFrame(k, i, frame) ==
    IF frame.form = "object" /\ FrameText(frame) # <<>>
    THEN WsReceive(k, i, FrameText(frame))
    ELSE /\ ws[k].pc = "receive"
         /\ ws[k].client_open
         /\ Len(ws[k].errors) < MaxErrorFrames
         /\ UNCHANGED <<storeVars, configVars, invVars, ops, subs>>
         /\ IF frame.form = "not_object"
            THEN /\ ws' = [ws EXCEPT ![k] = [Finally(ws[k]) EXCEPT !.frame = frame]]
                 /\ subscriptions' = FinallyHub(subscriptions, subs, ws[k].subscription)
            ELSE /\ ws' = [ws EXCEPT ![k].pc = "send_error", ![k].frame = frame]
                 /\ UNCHANGED subscriptions

\* lines 84-85 and 88-89: the error frame is sent and the loop goes on
WsSendError(k) ==
    /\ ws[k].pc = "send_error"
    /\ ws' = [ws EXCEPT ![k].pc = "receive", ![k].frame = NoFrame,
                         ![k].errors = Append(@, ErrorMessage(ws[k].frame))]
    /\ UNCHANGED <<storeVars, configVars, invVars, ops, hubVars>>

\* lines 84, 88, 107-112: the send_text of the error frame raises because
\* the client is gone, and the handler leaves through finally
WsSendErrorFails(k) ==
    /\ ws[k].pc = "send_error"
    /\ ~ws[k].client_open
    /\ ws' = [ws EXCEPT ![k] = Finally(ws[k])]
    /\ subscriptions' = FinallyHub(subscriptions, subs, ws[k].subscription)
    /\ UNCHANGED <<storeVars, configVars, invVars, ops, subs>>

\* send_notifications lines 67-68: a queued event is taken and sent
NotificationForward(k) ==
    /\ ws[k].task = "waiting"
    /\ subs[ws[k].subscription].queue # <<>>
    /\ subs' = [subs EXCEPT ![ws[k].subscription].queue = Tail(@)]
    /\ ws' = [ws EXCEPT ![k].notified = IF ws[k].client_open THEN @ + 1 ELSE @]
    /\ UNCHANGED <<storeVars, configVars, invVars, ops, subscriptions>>

\* send_notifications lines 68, 71-72: the send raises and the task ends
NotificationSendFails(k) ==
    /\ ws[k].task = "waiting"
    /\ subs[ws[k].subscription].queue # <<>>
    /\ ~ws[k].client_open
    /\ subs' = [subs EXCEPT ![ws[k].subscription].queue = Tail(@)]
    /\ ws' = [ws EXCEPT ![k].task = "failed"]
    /\ UNCHANGED <<storeVars, configVars, invVars, ops, subscriptions>>

(***************************************************************************)
(* Calls on the NotificationManager, by any caller.  api records the call  *)
(* just made.                                                              *)
(***************************************************************************)
HubConvs == {1, 2}

HubSubscribe(c) ==
    LET r == Subscribe(subscriptions, subs, c)
    IN  /\ Len(subs) < MaxSubs
        /\ subscriptions' = r.subscriptions
        /\ subs' = r.subs
        /\ api' = [op |-> "subscribe", user |-> "", arg |-> c, secret |-> "", result |-> "ok"]

\* any Subscription object made so far, registered or not
HubUnsubscribe(s) ==
    /\ s \in 1..Len(subs)
    /\ subscriptions' = Unsubscribe(subscriptions, subs, s)
    /\ api' = [op |-> "unsubscribe", user |-> "", arg |-> s, secret |-> "", result |-> "ok"]
    /\ UNCHANGED subs

HubNotifyFinished(c) ==
    /\ \A s \in 1..Len(subs) : Len(subs[s].queue) < MaxQueue
    /\ subs' = NotifyFinished(subscriptions, subs, c)
    /\ api' = [op |-> "notify_finished", user |-> "", arg |-> c, secret |-> "", result |-> "ok"]
    /\ UNCHANGED subscriptions

\* subscription.queue.get() by the holder of the object
HubQueueGet(s) ==
    /\ s \in 1..Len(subs)
    /\ subs[s].queue # <<>>
    /\ subs' = [subs EXCEPT ![s].queue = Tail(@)]
    /\ api' = [op |-> "queue_get", user |-> "", arg |-> s, secret |-> "", result |-> Head(subs[s].queue)]
    /\ UNCHANGED subscriptions

(***************************************************************************)
(* ConversationManager: the active pointer and the task tracker.  tasks    *)
(* are the asyncio tasks handed to track_task, each done or not;           *)
(* tasks_by_conversation maps a conversation id to the index of its task.  *)
(***************************************************************************)
TrackConvs == {1, 2}

\* ConversationManager.track_task
TrackTask(tbc, c, t) == [d \in DOMAIN tbc \cup {c} |-> IF d = c THEN t ELSE tbc[d]]

\* ConversationManager.get_task: 0 when there is none
GetTask(tbc, c) == IF c \in DOMAIN tbc THEN tbc[c] ELSE 0

\* the entry is dropped only once its task is done
CompleteTask_OnlyDone(tbc, tsk, c) ==
    IF c \in DOMAIN tbc /\ tsk[tbc[c]].done THEN [d \in DOMAIN tbc \ {c} |-> tbc[d]] ELSE tbc

\* ConversationManager.complete_task
CompleteTask(tbc, tsk, c) == [d \in DOMAIN tbc \ {c} |-> tbc[d]]

\* ConversationManager.has_pending_response
HasPendingResponse(tbc, tsk, c) == GetTask(tbc, c) # 0 /\ ~tsk[GetTask(tbc, c)].done

\* ConversationManager.create_conversation
MgrCreateConversation(u) ==
    LET r == CreateConversation(conversations, active_by_user, u)
    IN  /\ ops < MaxStoreOps
        /\ ops' = ops + 1
        /\ conversations' = r.conversations
        /\ active_by_user' = r.active
        /\ api' = [op |-> "create_conversation", user |-> u, arg |-> r.id, secret |-> "", result |-> "ok"]
        /\ UNCHANGED <<messages, documents, events, configVars, invVars, trackerVars>>

\* ConversationManager.set_active_conversation, with any id
MgrSetActive(u, c) ==
    /\ active_by_user' = SetActive(active_by_user, u, c)
    /\ api' = [op |-> "set_active_conversation", user |-> u, arg |-> c, secret |-> "", result |-> "ok"]
    /\ UNCHANGED <<conversations, messages, documents, events, configVars, invVars, ops,
                   trackerVars>>

\* track_task with a task just created
MgrTrackTask(c) ==
    /\ Len(tasks) < MaxTasks
    /\ tasks' = Append(tasks, [done |-> FALSE])
    /\ tasks_by_conversation' = TrackTask(tasks_by_conversation, c, Len(tasks) + 1)
    /\ api' = [op |-> "track_task", user |-> "", arg |-> c, secret |-> "", result |-> "ok"]
    /\ UNCHANGED <<storeVars, configVars, invVars, ops>>

\* a task handed to the tracker finishes
TaskDone(t) ==
    /\ t \in 1..Len(tasks)
    /\ ~tasks[t].done
    /\ tasks' = [tasks EXCEPT ![t].done = TRUE]
    /\ api' = [op |-> "task_done", user |-> "", arg |-> t, secret |-> "", result |-> "ok"]
    /\ UNCHANGED <<storeVars, configVars, invVars, ops, tasks_by_conversation>>

MgrCompleteTask(c) ==
    /\ tasks_by_conversation' = CompleteTask(tasks_by_conversation, tasks, c)
    /\ api' = [op |-> "complete_task", user |-> "", arg |-> c, secret |-> "", result |-> "ok"]
    /\ UNCHANGED <<storeVars, configVars, invVars, ops, tasks>>

(***************************************************************************)
(* ConversationUseCase.delete as a call: it succeeds, or raises            *)
(* ResourceNotFound before touching the store.                             *)
(***************************************************************************)
\* the owner is not compared
DeleteAllowed_AnyOwner(convs, u, c) == Exists(convs, c)

\* lines 89-91
DeleteAllowed(convs, u, c) == Exists(convs, c) /\ convs[c].user_id = u

ConversationDelete(u, c) ==
    IF DeleteAllowed(conversations, u, c)
    THEN /\ conversations' = [k \in DOMAIN conversations \ {c} |-> conversations[k]]
         /\ api' = [op |-> "delete", user |-> u, arg |-> c, secret |-> "", result |-> "ok"]
         /\ UNCHANGED <<messages, documents, active_by_user, events, configVars, invVars, ops>>
    ELSE /\ api' = [op |-> "delete", user |-> u, arg |-> c, secret |-> "", result |-> "ResourceNotFound"]
         /\ UNCHANGED <<storeVars, configVars, invVars, ops>>

\* ConversationUseCase.create as a call
ConversationCreate(u) ==
    /\ ApiCreateConversation(u)
    /\ api' = [op |-> "create", user |-> u, arg |-> NewConversationId(conversations), secret |-> "",
               result |-> "ok"]

\* ConversationUseCase.list: the ids listed for the user
ConversationList(convs, u) == {c \in DOMAIN convs : convs[c].user_id = u}

\* ConversationUseCase.get_with_messages lines 71-73: the conversation is
\* returned, not ResourceNotFound
Retrievable(convs, u, c) == Exists(convs, c) /\ convs[c].user_id = u

\* DocumentUseCase.upload as a call that succeeds
DocumentUpload(u, c, filename) ==
    /\ UploadDocument(u, c, filename)
    /\ api' = [op |-> "upload", user |-> u, arg |-> c, secret |-> "", result |-> "ok"]

(***************************************************************************)
(* AuthLoginUseCase.execute over an AuthService with two registered users. *)
(* A User carries the number of the login call that created it, standing   *)
(* for the object made at that moment.                                     *)
(***************************************************************************)
AuthUsers == [u \in {"alice", "carol"} |-> IF u = "alice" THEN "secret" ELSE "pass2"]

LoginNames == {"alice", "carol", "bob"}

LoginPasswords == {"secret", "pass2", "wrong"}

\* AuthService.authenticate: the exception, or the boolean
Authenticate(username, password) ==
    IF username \notin DOMAIN AuthUsers THEN "AuthError"
    ELSE IF AuthUsers[username] = password THEN "true" ELSE "false"

\* InMemoryStore.get_user
HasUser(us, username) == username \in DOMAIN us

\* InMemoryStore.add_user
AddUser(us, user) == [w \in DOMAIN us \cup {user.id} |-> IF w = user.id THEN user ELSE us[w]]

\* User(id=username, username=username)
NewUser(username, stamp) == [id |-> username, username |-> username, created_at |-> stamp]

\* every successful login stores a new User
EnsureUser_Replaces(us, username, stamp) == AddUser(us, NewUser(username, stamp))

\* lines 45-47
EnsureUser(us, username, stamp) ==
    IF ~HasUser(us, username) THEN AddUser(us, NewUser(username, stamp)) ELSE us

\* token_factory({"sub": username})
Token(sub) == "token:" \o sub

\* decode_token: the subject the token was issued for
TokenSubject(token) ==
    IF \E u \in LoginNames : Token(u) = token
    THEN CHOOSE u \in LoginNames : Token(u) = token ELSE ""

Login(username, password) ==
    LET ok == Authenticate(username, password)
    IN  /\ logins < MaxLogins
        /\ logins' = logins + 1
        /\ IF ok = "AuthError"
           THEN /\ api' = [op |-> "login", user |-> username, arg |-> 0, secret |-> password,
                           result |-> "UserNotFound"]
                /\ UNCHANGED users
           ELSE IF ok = "false"
           THEN /\ api' = [op |-> "login", user |-> username, arg |-> 0, secret |-> password,
                           result |-> "InvalidCredentials"]
                /\ UNCHANGED users
           ELSE /\ users' = EnsureUser(users, username, logins + 1)
                /\ api' = [op |-> "login", user |-> username, arg |-> 0, secret |-> password,
                           result |-> Token(username)]

(***************************************************************************)
(* should_use_pdf_context applied to a store filled directly: messages     *)
(* and documents are added to conversation ids 1 and 2, and the predicate  *)
(* is asked for a conversation and a text; req[1] keeps the question and   *)
(* api the answer.                                                         *)
(***************************************************************************)
T_pdfs == <<"l", "o", "s", " ", "p", "d", "f", "s">>
T_doc == <<"l", "e", "e", " ", "d", "o", "c">>
F_Doc == <<"D", "o", "c">>

PdfConvs == {1, 2}
\* conversation 1 is the one looked at in detail; conversation 2 holds what
\* must not count for it
PdfMessages == {[c |-> 1, content |-> T_saludo], [c |-> 1, content |-> T_pdf],
                [c |-> 2, content |-> T_pdf]}
PdfDocuments == {[c |-> 1, filename |-> F_Doc], [c |-> 1, filename |-> <<>>],
                 [c |-> 2, filename |-> F_Doc]}
PdfTexts == {T_saludo, T_pdf, T_pdfs, T_doc}

\* InMemoryStore.add_message with a message of the conversation
StoreAddMessage(c, content) ==
    LET r == AddMessage(messages, conversations, NewMessage(messages, c, "user", content, 0))
    IN  /\ Len(messages) < MaxPdfMsgs
        /\ messages' = r.messages
        /\ conversations' = r.conversations
        /\ api' = [op |-> "add_message", user |-> "", arg |-> c, secret |-> "", result |-> "ok"]
        /\ UNCHANGED <<documents, active_by_user, events, configVars, invVars, ops>>

\* InMemoryStore.add_message with a message of either role
StoreAddRoleMessage(c, role, content) ==
    LET r == AddMessage(messages, conversations, NewMessage(messages, c, role, content, 0))
    IN  /\ Len(messages) < MaxPdfMsgs
        /\ messages' = r.messages
        /\ conversations' = r.conversations
        /\ UNCHANGED <<documents, active_by_user, events, configVars, invVars, ops>>

\* PDFTool.add_document
StoreAddDocument(u, c, filename) ==
    /\ Len(documents) < MaxPdfDocs
    /\ documents' = Append(documents, [id |-> Len(documents) + 1, user_id |-> u,
                                       conversation_id |-> c, filename |-> filename])
    /\ api' = [op |-> "add_document", user |-> u, arg |-> c, secret |-> "", result |-> "ok"]
    /\ UNCHANGED <<conversations, messages, active_by_user, events, configVars, invVars, ops>>

\* should_use_pdf_context(store, conversation_id, user_text)
AskPdfContext(c, text) ==
    /\ req' = [req EXCEPT ![1] = [user |-> "", conversation_id |-> c, text |-> text]]
    /\ api' = [op |-> "should_use_pdf_context", user |-> "", arg |-> c, secret |-> "",
               result |-> IF ShouldUsePdfContext(messages, documents, c, text)
                          THEN "true" ELSE "false"]
    /\ UNCHANGED <<storeVars, configVars, pc, conv, out, assistant_content, gen, calls, note,
                   ops>>

(***************************************************************************)
(* A call of _normalize_intent_dates(intent, user_text): what it returned, *)
(* or that it raised.                                                      *)
(***************************************************************************)
T_cita_2024 == <<"c", "i", "t", "a", " ", "2", "0", "2", "4">>
T_a2024 == <<"a", "2", "0", "2", "4">>
NormTexts == {Title_cita, T_cita_2024, T_a2024}

\* the dates an intent names: none, a string that is no date, the 29th of
\* February of a year that has none, and days of a past, the current and a
\* later year, the 29th of February of a leap year among them
NormDates ==
    {NoDate, BadDate, DateOf(ThisYear, LeapDay), DateOf(0, LeapDay)}
        \cup {DateOf(y, d) : y \in {0, ThisYear, ThisYear + 1}, d \in 0..(LeapDay - 1)}

NormOtherDates == {NoDate, DateOf(0, 0), DateOf(0, LeapDay)}

NormalizeCall(intent, user_text) ==
    /\ norm' = [called |-> TRUE, intent |-> intent, text |-> user_text,
                raised |-> NormalizeRaises(intent, user_text),
                result |-> IF NormalizeRaises(intent, user_text) THEN NoIntent
                           ELSE NormalizeIntentDates(intent, user_text)]
    /\ UNCHANGED <<storeVars, configVars, invVars, ops, llm_stream, jwt, cal, prompt>>

(***************************************************************************)
(* LLMService.stream_messages: the answer of generate_messages cut into    *)
(* pieces of chunk_size characters.                                        *)
(***************************************************************************)
MaxResponseLen == 4
MaxChunkSize == 3

\* what generate_messages answers
Responses == UNION {[1..n -> {"a", "b"}] : n \in 0..MaxResponseLen}

\* response[a : b] of Python, for 0 <= a < len(response)
Slice_DropsShortTail(response, a, b) ==
    IF b > Len(response) THEN <<>> ELSE SubSeq(response, a + 1, b)

Slice(response, a, b) ==
    SubSeq(response, a + 1, IF b > Len(response) THEN Len(response) ELSE b)

\* line 180: the answer of generate_messages is there and the loop starts
StreamMessagesOpen(response, chunk_size) ==
    /\ llm_stream.pc # "streaming"
    /\ llm_stream' = [pc |-> "streaming", response |-> response, chunk_size |-> chunk_size,
                      idx |-> 0, fragments |-> <<>>]
    /\ UNCHANGED <<storeVars, configVars, invVars, ops, norm, jwt, cal, prompt>>

\* lines 181-183: one turn of the loop over range(0, len(response), chunk_size)
StreamMessagesYield ==
    /\ llm_stream.pc = "streaming"
    /\ llm_stream.idx < Len(llm_stream.response)
    /\ llm_stream' =
            [llm_stream EXCEPT
                !.fragments = Append(@, Slice(llm_stream.response, llm_stream.idx,
                                              llm_stream.idx + llm_stream.chunk_size)),
                !.idx = @ + llm_stream.chunk_size]
    /\ UNCHANGED <<storeVars, configVars, invVars, ops, norm, jwt, cal, prompt>>

\* the range is exhausted
StreamMessagesEnd ==
    /\ llm_stream.pc = "streaming"
    /\ llm_stream.idx >= Len(llm_stream.response)
    /\ llm_stream' = [llm_stream EXCEPT !.pc = "done"]
    /\ UNCHANGED <<storeVars, configVars, invVars, ops, norm, jwt, cal, prompt>>

(***************************************************************************)
(* jwt_service: create_access_token and decode_token.  Time is counted in  *)
(* units of half an hour.                                                  *)
(***************************************************************************)
DEFAULT_EXPIRES_MINUTES == 2
MaxClock == 4

\* the data a token is issued for: with a subject, the empty one among them,
\* or without
JwtData == [has_sub : {TRUE}, sub : {"alice", "user-123", ""}]
               \cup [has_sub : {FALSE}, sub : {""}]

\* the argument expires_minutes: 0 stands for None
JwtExpires == {0, 1, 3}

\* create_access_token: the data with the claim exp
CreateAccessToken(data, expires_minutes, now) ==
    [has_sub |-> data.has_sub, sub |-> data.sub,
     exp |-> now + (IF expires_minutes = 0 THEN DEFAULT_EXPIRES_MINUTES
                    ELSE expires_minutes)]

\* decode_token: jwt.decode checks the expiry, then the subject is read
DecodeToken_SubjectOrEmpty(token, now) ==
    IF token.exp < now THEN [result |-> "", error |-> "ExpiredSignatureError"]
    ELSE [result |-> token.sub, error |-> ""]

DecodeToken(token, now) ==
    IF token.exp < now THEN [result |-> "", error |-> "ExpiredSignatureError"]
    ELSE IF ~token.has_sub THEN [result |-> "", error |-> "JWTError"]
    ELSE [result |-> token.sub, error |-> ""]

JwtCreate(data, expires_minutes) ==
    /\ jwt' = [jwt EXCEPT !.issued = TRUE, !.issued_at = jwt.now,
                          !.token = CreateAccessToken(data, expires_minutes, jwt.now),
                          !.decoded = FALSE, !.decoded_at = 0, !.result = "", !.error = ""]
    /\ UNCHANGED <<storeVars, configVars, invVars, ops, norm, llm_stream, cal, prompt>>

JwtDecode ==
    /\ jwt.issued
    /\ jwt' = [jwt EXCEPT !.decoded = TRUE, !.decoded_at = jwt.now,
                          !.result = DecodeToken(jwt.token, jwt.now).result,
                          !.error = DecodeToken(jwt.token, jwt.now).error]
    /\ UNCHANGED <<storeVars, configVars, invVars, ops, norm, llm_stream, cal, prompt>>

\* time passes
JwtTick ==
    /\ jwt.now < MaxClock
    /\ jwt' = [jwt EXCEPT !.now = @ + 1]
    /\ UNCHANGED <<storeVars, configVars, invVars, ops, norm, llm_stream, cal, prompt>>

(***************************************************************************)
(* EventUseCase over the calendar collaborator.  A call of the             *)
(* collaborator answers, or raises RuntimeError (raised); for an id the    *)
(* calendar does not hold get_event and update_event answer None and       *)
(* delete_event answers False.                                             *)
(***************************************************************************)
MaxEvents == 2
EventArgs == 1..(MaxEvents + 1)
Title_nuevo == <<"n", "u", "e", "v", "o">>

\* what a call of get, update or delete ends with
EventUseCaseResult_NoneIsFine(raised, found) ==
    IF raised THEN "ExternalServiceError" ELSE "ok"

EventUseCaseResult(raised, found) ==
    IF raised THEN "ExternalServiceError"
    ELSE IF ~found THEN "ResourceNotFound"
    ELSE "ok"

Raised(raised) == IF raised THEN "RuntimeError" ELSE ""

\* EventUseCase.create
EventCreate(u, raised) ==
    /\ Len(events) < MaxEvents
    /\ events' = IF raised THEN events
                 ELSE InsertByStart(events,
                                    [id |-> NextEventId(events), title |-> Title_cita,
                                     starts_at |-> Today * HoursPerDay + 12,
                                     ends_at |-> Today * HoursPerDay + 13])
    /\ api' = [op |-> "event_create", user |-> u, arg |-> NextEventId(events),
               secret |-> Raised(raised), result |-> EventUseCaseResult(raised, TRUE)]
    /\ UNCHANGED <<conversations, messages, documents, active_by_user, configVars, invVars,
                   ops>>

\* EventUseCase.list
EventList(u, raised) ==
    /\ api' = [op |-> "event_list", user |-> u, arg |-> Len(events),
               secret |-> Raised(raised), result |-> EventUseCaseResult(raised, TRUE)]
    /\ UNCHANGED <<storeVars, configVars, invVars, ops>>

\* EventUseCase.get
EventGet(u, event_id, raised) ==
    /\ api' = [op |-> "event_get", user |-> u, arg |-> event_id, secret |-> Raised(raised),
               result |-> EventUseCaseResult(raised, EventById(events, event_id) # NoEvent)]
    /\ UNCHANGED <<storeVars, configVars, invVars, ops>>

\* EventUseCase.update: with no field to change update_event answers
\* get_event
EventUpdate(u, event_id, title, raised) ==
    LET old == EventById(events, event_id)
        updated == IF title = NullStr THEN old ELSE [old EXCEPT !.title = title]
    IN  /\ events' = IF raised \/ old = NoEvent THEN events
                     ELSE InsertByStart(RemoveIds(events, {event_id}), updated)
        /\ api' = [op |-> "event_update", user |-> u, arg |-> event_id,
                   secret |-> Raised(raised),
                   result |-> EventUseCaseResult(raised, old # NoEvent)]
        /\ UNCHANGED <<conversations, messages, documents, active_by_user, configVars,
                       invVars, ops>>

\* EventUseCase.delete
EventDelete(u, event_id, raised) ==
    /\ events' = IF raised THEN events ELSE RemoveIds(events, {event_id})
    /\ api' = [op |-> "event_delete", user |-> u, arg |-> event_id, secret |-> Raised(raised),
               result |-> EventUseCaseResult(raised, event_id \in EventIds(events))]
    /\ UNCHANGED <<conversations, messages, documents, active_by_user, configVars, invVars,
                   ops>>

(***************************************************************************)
(* prompt_utils: the history payload and the focus document.               *)
(***************************************************************************)
MaxHistory == 3

\* what the conversations 1 and 2 are told and answer
PromptMessages == {[c |-> 1, role |-> "user", content |-> T_saludo],
                   [c |-> 1, role |-> "user", content |-> T_pdf],
                   [c |-> 1, role |-> "assistant", content |-> T_saludo],
                   [c |-> 2, role |-> "user", content |-> T_pdf]}

\* build_message_payload(store, conversation_id, max_history_messages)
BuildMessagePayload(c, n) ==
    LET recent == LastN(MessagesOf(messages, c), n)
    IN  /\ prompt' = [op |-> "payload", conversation_id |-> c, n |-> n, text |-> <<>>,
                      payload |-> [k \in 1..Len(recent) |->
                                      [role |-> recent[k].role, content |-> recent[k].content]],
                      focus |-> NoFocus]
        /\ UNCHANGED <<storeVars, configVars, invVars, ops, norm, llm_stream, jwt, cal>>

MaxFocusDocs == 3

\* str.isprintable: line breaks, tabs and control characters ("NUL" stands
\* for one) are not printable, the space is
Printable(ch) == ch \notin {"\n", "\t", "NUL"}

RECURSIVE SquashSpaces(_)
\* re.sub(r"\s+", " ", text) on a text whose only white space is the space
SquashSpaces(text) ==
    IF Len(text) < 2 THEN text
    ELSE IF text[1] = " " /\ text[2] = " " THEN SquashSpaces(Tail(text))
    ELSE <<text[1]>> \o SquashSpaces(Tail(text))

\* _sanitize_pdf_text
SanitizePdfText(text) ==
    Strip(SquashSpaces([k \in 1..Len(text) |-> IF Printable(text[k]) THEN text[k] ELSE " "]))

\* _doc_sort_key: the number an identifier doc_<n> ends with
DocSortKey(doc) == doc.id

\* the document listed last
SelectFocusDocument_LastListed(docs, user_text) ==
    LET named == {k \in 1..Len(docs) :
                    /\ docs[k].filename # <<>>
                    /\ Contains(Lower(user_text), Lower(docs[k].filename))}
    IN  IF named # {} THEN docs[CHOOSE k \in named : \A j \in named : k <= j]
        ELSE docs[Len(docs)]

\* lines 126-138: the first document whose filename the text holds, else the
\* last of sorted(documents, key=_doc_sort_key), a stable sort
SelectFocusDocument(docs, user_text) ==
    LET named == {k \in 1..Len(docs) :
                    /\ docs[k].filename # <<>>
                    /\ Contains(Lower(user_text), Lower(docs[k].filename))}
        top == {k \in 1..Len(docs) : \A j \in 1..Len(docs) : DocSortKey(docs[j]) <= DocSortKey(docs[k])}
    IN  IF named # {} THEN docs[CHOOSE k \in named : \A j \in named : k <= j]
        ELSE docs[CHOOSE k \in top : \A j \in top : j <= k]

FocusFallback ==
    <<"(No se pudo extraer texto legible del PDF. Si es un PDF escaneado, sube una version con OCR.)">>

\* build_pdf_focus_context
PdfFocusContext(msgs, docs, c, user_text, max_chars) ==
    LET conv_docs == DocumentsOf(docs, c)
        selected == SelectFocusDocument(conv_docs, user_text)
        content == SanitizePdfText(Strip(selected.content))
        head == <<"Documento", ":", " ">> \o selected.filename \o <<"\n">>
    IN  IF ~ShouldUsePdfContext(msgs, docs, c, user_text) THEN NoFocus
        ELSE IF conv_docs = <<>> THEN NoFocus
        ELSE IF content = <<>>
        THEN [kind |-> "fallback", doc |-> selected.id, block |-> head \o FocusFallback]
        ELSE [kind |-> "content", doc |-> selected.id,
              block |-> head \o (IF Len(content) > max_chars
                                 THEN SubSeq(content, 1, max_chars) \o <<"...">>
                                 ELSE content)]

\* a call of build_pdf_focus_context
BuildPdfFocusContext(c, user_text, max_chars) ==
    /\ prompt' = [op |-> "focus", conversation_id |-> c, n |-> max_chars, text |-> user_text,
                  payload |-> <<>>,
                  focus |-> PdfFocusContext(messages, documents, c, user_text, max_chars)]
    /\ UNCHANGED <<storeVars, configVars, invVars, ops, norm, llm_stream, jwt, cal>>

\* InMemoryStore.add_document: documents[document.id] = document, which
\* keeps the place of an identifier the store already holds
StoreAddDocumentAs(doc) ==
    /\ Len(documents) < MaxFocusDocs
    /\ documents' = IF \E k \in 1..Len(documents) : documents[k].id = doc.id
                    THEN [k \in 1..Len(documents) |->
                            IF documents[k].id = doc.id THEN doc ELSE documents[k]]
                    ELSE Append(documents, doc)
    /\ UNCHANGED <<conversations, messages, active_by_user, events, configVars, invVars, ops>>

F_b == <<"b">>

\* the documents a caller may store, under identifiers of its choice
FocusDocuments ==
    {[id |-> 1, user_id |-> "u1", conversation_id |-> 1, filename |-> F_Doc,
      content |-> <<"a", "b", "\n", "\n", "c", "d">>],
     [id |-> 2, user_id |-> "u1", conversation_id |-> 1, filename |-> F_b,
      content |-> <<" ", "\n", "NUL">>],
     [id |-> 2, user_id |-> "u1", conversation_id |-> 1, filename |-> F_Doc,
      content |-> <<"x">>],
     [id |-> 3, user_id |-> "u1", conversation_id |-> 1, filename |-> <<>>,
      content |-> <<>>],
     [id |-> 3, user_id |-> "u1", conversation_id |-> 2, filename |-> F_Doc,
      content |-> <<"a", "b", "c">>]}

(***************************************************************************)
(* maybe_handle_calendar_llm on a calendar that holds several events.      *)
(***************************************************************************)
MaxCalEvents == 6

Title_Cita == <<"C", "i'", "t", "a">>
Title_CITA == <<"C", "I'", "t", "a">>
Title_cena == <<"c", "e", "n", "a">>

\* the events other clients of the calendar may have put there: two of
\* today, the later ones of tomorrow
PoolEvent(id) ==
    LET start == (IF id <= 2 THEN Today ELSE Today + 1) * HoursPerDay + 7 + 2 * id
    IN  [id |-> id,
         title |-> IF id = 1 THEN Title_cita ELSE IF id = 2 THEN Title_Cita ELSE Title_nuevo,
         starts_at |-> start, ends_at |-> start + 1]

\* GoogleCalendarTool.create_event called from elsewhere
CalendarCreated(id) ==
    /\ ~cal.called
    /\ id \notin EventIds(events)
    /\ events' = InsertByStart(events, PoolEvent(id))
    /\ UNCHANGED <<conversations, messages, documents, active_by_user, configVars, invVars,
                   ops, fnVars>>

\* GoogleCalendarTool.delete_event called from elsewhere
CalendarDeleted(id) ==
    /\ ~cal.called
    /\ id \in EventIds(events)
    /\ events' = RemoveIds(events, {id})
    /\ UNCHANGED <<conversations, messages, documents, active_by_user, configVars, invVars,
                   ops, fnVars>>

\* maybe_handle_calendar_llm once generate_messages has answered raw
CalendarCall(raw, user_text, fault) ==
    LET o == HandleCalendarAnswer(raw, user_text, events, fault)
        reached == /\ ParseCalendarIntent(raw) = "object"
                   /\ ~NormalizeRaises(raw.intent, user_text)
    IN  /\ ~cal.called
        /\ cal' = [called |-> TRUE, raw |-> raw, text |-> user_text, fault |-> fault,
                   before |-> events, reached |-> reached,
                   intent |-> IF reached THEN NormalizeIntentDates(raw.intent, user_text)
                              ELSE NoIntent,
                   kind |-> o.kind, reply |-> o.reply, calls |-> o.calls]
        /\ events' = o.events
        /\ UNCHANGED <<conversations, messages, documents, active_by_user, configVars,
                       invVars, ops, norm, llm_stream, jwt, prompt>>

CalTitles == {NullStr, Title_cita, Title_CITA, Title_nuevo, Title_cena}
CalDates == {NoDate, Today, Today + 1, BadDate, DateOf(0, LeapDay)}
CalTimes == {NoTime, 10, BadTime}

\* <<start_time, end_time>>
CalTimePairs == {<<start_time, NoTime>> : start_time \in CalTimes}
                    \cup {<<10, end_time>> : end_time \in {12, BadTime}}

\* the intents the classification may answer with
CalIntents ==
    {[NoIntent EXCEPT !.action = "delete", !.title = title, !.date = date] :
        title \in CalTitles, date \in CalDates}
    \cup {[NoIntent EXCEPT !.action = "delete", !.event_id = id] : id \in {2, MaxCalEvents + 1}}
    \cup {[NoIntent EXCEPT !.action = "delete", !.date = date, !.range_start = range_start,
                           !.range_end = range_end] :
            date \in {NoDate, Today}, range_start \in {NoDate, Today},
            range_end \in {NoDate, Today + 1}}
    \cup {[NoIntent EXCEPT !.action = "edit", !.title = title, !.date = date, !.update = update] :
            title \in CalTitles, date \in {NoDate, Today, BadDate},
            update \in {NoUpdate, [NoUpdate EXCEPT !.start_time = 11]}}
    \cup {[NoIntent EXCEPT !.action = "edit", !.event_id = 2,
                           !.update = [NoUpdate EXCEPT !.title = Title_cena]]}
    \cup {[NoIntent EXCEPT !.action = "create", !.title = title, !.date = date,
                           !.start_time = times[1], !.end_time = times[2]] :
            title \in {NullStr, Title_cena}, date \in CalDates \ {Today},
            times \in CalTimePairs}
    \cup {[NoIntent EXCEPT !.action = "list"], [NoIntent EXCEPT !.action = "none"],
          [NoIntent EXCEPT !.action = "remind"]}

\* the answers of the classification call: an intent alone or inside prose,
\* and the texts that hold no JSON object
CalRawOutputs ==
    [form : {"json"}, value : {"object"}, intent : CalIntents]
        \cup [form : {"prose_json"}, value : {"object"},
              intent : {x \in CalIntents : x.title \in {NullStr, Title_cita}
                                           /\ x.date \in {NoDate, Today + 1}
                                           /\ x.range_end = NoDate}]
        \cup [form : {"json", "prose_json"}, value : {"empty_object", "number"},
              intent : {NoIntent}]
        \cup [form : {"empty", "prose", "broken", "reversed", "braced_prose"},
              value : {"none"}, intent : {NoIntent}]

\* the calendar calls that may fail: list, create, update, and delete_event
\* for some of the events
CalFaults ==
    {NoFault, [NoFault EXCEPT !.list = TRUE], [NoFault EXCEPT !.create = TRUE],
     [NoFault EXCEPT !.update = TRUE]}
        \cup {[NoFault EXCEPT !.delete = ids] : ids \in {{1}, {2, 3}, 1..MaxCalEvents}}

CalFaultsFor(raw) ==
    IF raw.value # "object" \/ raw.form # "json" THEN {NoFault}
    ELSE {f \in CalFaults :
            \/ f = NoFault
            \/ f.list /\ raw.intent.action \in {"list", "delete", "edit"}
            \/ f.create /\ raw.intent.action = "create"
            \/ f.update /\ raw.intent.action = "edit"
            \/ f.delete # {} /\ raw.intent.action = "delete"}

(***************************************************************************)
(* Specifications.                                                         *)
(***************************************************************************)
\* what the intent-classification call answers in the orchestration runs:
\* every way of stating no intent, a value that is no object, and one intent
\* per calendar call
MainRawOutputs ==
    {raw \in RawOutputs :
        \/ raw.value # "object"
        \/ raw.form = "json"
        \/ raw.intent = NoIntent}

\* execute consumed to its end by one caller, a user whose messages name no
\* conversation, while documents are uploaded
Next ==
    \/ \E i \in Inv, text \in Texts : Start(i, "u1", 0, text) /\ UNCHANGED <<ws, hubVars, trackerVars, apiVars, fnVars>>
    \/ \E i \in Inv, text \in Texts : StartResolveFails(i, "u1", 0, text) /\ UNCHANGED <<ws, hubVars, trackerVars, apiVars, fnVars>>
    \/ \E i \in Inv, raised \in BOOLEAN : ToolReturn(i, raised) /\ UNCHANGED <<ws, hubVars, trackerVars, apiVars, fnVars>>
    \/ \E i \in Inv, raw \in MainRawOutputs : \E fault \in FaultsFor(raw) :
            CalendarAnswer(i, raw, fault) /\ UNCHANGED <<ws, hubVars, trackerVars, apiVars, fnVars>>
    \/ \E i \in Inv : CalendarCallFails(i) /\ UNCHANGED <<ws, hubVars, trackerVars, apiVars, fnVars>>
    \/ \E i \in Inv : StreamChunk(i, ChunkAt(Len(gen[i]) + 1)) /\ UNCHANGED <<ws, hubVars, trackerVars, apiVars, fnVars>>
    \/ \E i \in Inv : StreamEnd(i) /\ UNCHANGED <<ws, hubVars, trackerVars, apiVars, fnVars>>
    \/ \E i \in Inv : StreamFails(i) /\ UNCHANGED <<ws, hubVars, trackerVars, apiVars, fnVars>>
    \/ \E i \in Inv : Resume(i) /\ UNCHANGED <<ws, hubVars, trackerVars, apiVars, fnVars>>
    \/ \E c \in DOMAIN conversations, f \in Filenames :
            UploadDocument("u1", c, f) /\ UNCHANGED <<ws, hubVars, trackerVars, apiVars, fnVars>>

Spec == Init /\ [][Next]_vars

\* the texts of the runs about conversation resolution: the reply does not
\* depend on the conversation
ResolveTexts == {T_tool_unknown}

\* two users sending messages that name a conversation or none, while
\* conversations are created and deleted through the API
NextResolve ==
    \/ \E i \in Inv, u \in Users, cid \in ConvArgs, text \in ResolveTexts :
            Start(i, u, cid, text) /\ UNCHANGED <<ws, hubVars, trackerVars, apiVars, fnVars>>
    \/ \E i \in Inv, u \in Users, cid \in ConvArgs, text \in ResolveTexts :
            StartResolveFails(i, u, cid, text) /\ UNCHANGED <<ws, hubVars, trackerVars, apiVars, fnVars>>
    \/ \E i \in Inv : Resume(i) /\ UNCHANGED <<ws, hubVars, trackerVars, apiVars, fnVars>>
    \/ \E u \in Users : ApiCreateConversation(u) /\ UNCHANGED <<ws, hubVars, trackerVars, apiVars, fnVars>>
    \/ \E u \in Users, c \in DOMAIN conversations : ApiDeleteConversation(u, c) /\ UNCHANGED <<ws, hubVars, trackerVars, apiVars, fnVars>>

SpecResolve == Init /\ [][NextResolve]_vars

\* the texts and the classification answers of the WebSocket runs
WsTexts == {T_saludo, T_tool_unknown}
WsRawOutputs ==
    {raw \in RawOutputs : raw.form = "json" /\ raw.value = "object"
                          /\ raw.intent.action \in {"none", "list"}}

\* the connections whose client sends messages; the others only listen.  The
\* second message slot carries a tool request.
Chatting == {1}

\* clients chatting over WebSocket connections on a user's conversations
NextWs ==
    \/ ApiCreateConversation("u1") /\ UNCHANGED <<ws, hubVars, trackerVars, apiVars, fnVars>>
    \/ \E k \in Conns, c \in DOMAIN conversations :
            WsConnect(k, "u1", c) /\ UNCHANGED <<trackerVars, apiVars, fnVars>>
    \/ \E k \in Conns, c \in DOMAIN conversations :
            WsReject(k, "u2", c) /\ UNCHANGED <<trackerVars, apiVars, fnVars>>
    \/ \E k \in Conns : ClientClose(k) /\ UNCHANGED <<trackerVars, apiVars, fnVars>>
    \/ \E k \in Chatting, i \in Inv, text \in WsTexts :
            /\ i > 1 => text = T_tool_unknown
            /\ WsReceive(k, i, text) /\ UNCHANGED <<trackerVars, apiVars, fnVars>>
    \/ \E k \in Conns : WsDisconnected(k) /\ UNCHANGED <<trackerVars, apiVars, fnVars>>
    \/ \E k \in Conns : WsForward(k) /\ UNCHANGED <<trackerVars, apiVars, fnVars>>
    \/ \E k \in Conns : WsSendFails(k) /\ UNCHANGED <<trackerVars, apiVars, fnVars>>
    \/ \E k \in Conns : WsCancelled(k) /\ UNCHANGED <<trackerVars, apiVars, fnVars>>
    \/ \E k \in Conns : WsNotifyFinished(k) /\ UNCHANGED <<trackerVars, apiVars, fnVars>>
    \/ \E k \in Conns : NotificationForward(k) /\ UNCHANGED <<trackerVars, apiVars, fnVars>>
    \/ \E k \in Conns : NotificationSendFails(k) /\ UNCHANGED <<trackerVars, apiVars, fnVars>>
    \/ \E i \in Inv, raw \in WsRawOutputs :
            CalendarAnswer(i, raw, NoFault) /\ UNCHANGED <<ws, hubVars, trackerVars, apiVars, fnVars>>
    \/ \E i \in Inv : StreamChunk(i, ChunkAt(Len(gen[i]) + 1))
                            /\ UNCHANGED <<ws, hubVars, trackerVars, apiVars, fnVars>>
    \/ \E i \in Inv : StreamEnd(i) /\ UNCHANGED <<ws, hubVars, trackerVars, apiVars, fnVars>>
    \/ \E i \in Inv : StreamFails(i) /\ UNCHANGED <<ws, hubVars, trackerVars, apiVars, fnVars>>

SpecWs == Init /\ [][NextWs]_vars

\* the frames of the client: text that is no JSON, JSON that is no object,
\* and objects with a "text" and a "message" key (NullStr: the key is absent)
WsFrames ==
    {[form |-> "garbage", text |-> NullStr, message |-> NullStr],
     [form |-> "not_object", text |-> NullStr, message |-> NullStr],
     [form |-> "object", text |-> NullStr, message |-> NullStr],
     [form |-> "object", text |-> <<" ">>, message |-> T_saludo],
     [form |-> "object", text |-> <<" ">> \o T_saludo \o <<"\n">>, message |-> NullStr],
     [form |-> "object", text |-> <<>>, message |-> T_tool_unknown]}

\* a client sending frames of every kind over a connection, with a second
\* connection listening; the handler's task is not cancelled
NextFrames ==
    \/ ApiCreateConversation("u1") /\ UNCHANGED <<ws, hubVars, trackerVars, apiVars, fnVars>>
    \/ \E k \in Conns, c \in DOMAIN conversations :
            WsConnect(k, "u1", c) /\ UNCHANGED <<trackerVars, apiVars, fnVars>>
    \/ \E k \in Chatting : ClientClose(k) /\ UNCHANGED <<trackerVars, apiVars, fnVars>>
    \/ \E k \in Chatting, i \in Inv, frame \in WsFrames :
            /\ i = 1 <=> FrameText(frame) # T_tool_unknown
            /\ WsReceiveFrame(k, i, frame) /\ UNCHANGED <<trackerVars, apiVars, fnVars>>
    \/ \E k \in Conns : WsSendError(k) /\ UNCHANGED <<trackerVars, apiVars, fnVars>>
    \/ \E k \in Conns : WsSendErrorFails(k) /\ UNCHANGED <<trackerVars, apiVars, fnVars>>
    \/ \E k \in Conns : WsDisconnected(k) /\ UNCHANGED <<trackerVars, apiVars, fnVars>>
    \/ \E k \in Conns : WsForward(k) /\ UNCHANGED <<trackerVars, apiVars, fnVars>>
    \/ \E k \in Conns : WsSendFails(k) /\ UNCHANGED <<trackerVars, apiVars, fnVars>>
    \/ \E k \in Conns : WsNotifyFinished(k) /\ UNCHANGED <<trackerVars, apiVars, fnVars>>
    \/ \E k \in Conns : NotificationForward(k) /\ UNCHANGED <<trackerVars, apiVars, fnVars>>
    \/ \E k \in Conns : NotificationSendFails(k) /\ UNCHANGED <<trackerVars, apiVars, fnVars>>
    \/ \E i \in Inv, raw \in WsRawOutputs :
            CalendarAnswer(i, raw, NoFault) /\ UNCHANGED <<ws, hubVars, trackerVars, apiVars, fnVars>>
    \/ \E i \in Inv : StreamChunk(i, ChunkAt(Len(gen[i]) + 1))
                            /\ UNCHANGED <<ws, hubVars, trackerVars, apiVars, fnVars>>
    \/ \E i \in Inv : StreamEnd(i) /\ UNCHANGED <<ws, hubVars, trackerVars, apiVars, fnVars>>
    \/ \E i \in Inv : StreamFails(i) /\ UNCHANGED <<ws, hubVars, trackerVars, apiVars, fnVars>>

SpecFrames == Init /\ [][NextFrames]_vars

\* the NotificationManager on its own
NextHub ==
    \/ \E c \in HubConvs : HubSubscribe(c)
            /\ UNCHANGED <<storeVars, configVars, invVars, ops, ws, trackerVars, users, logins, fnVars>>
    \/ \E s \in 1..MaxSubs : HubUnsubscribe(s)
            /\ UNCHANGED <<storeVars, configVars, invVars, ops, ws, trackerVars, users, logins, fnVars>>
    \/ \E c \in HubConvs : HubNotifyFinished(c)
            /\ UNCHANGED <<storeVars, configVars, invVars, ops, ws, trackerVars, users, logins, fnVars>>
    \/ \E s \in 1..MaxSubs : HubQueueGet(s)
            /\ UNCHANGED <<storeVars, configVars, invVars, ops, ws, trackerVars, users, logins, fnVars>>

SpecHub == Init /\ [][NextHub]_vars

\* the ConversationManager on its own, over a store whose conversations are
\* created by it and deleted through the API
NextTracker ==
    \/ \E u \in Users : MgrCreateConversation(u) /\ UNCHANGED <<ws, hubVars, users, logins, fnVars>>
    \/ \E u \in Users, c \in TrackConvs : MgrSetActive(u, c) /\ UNCHANGED <<ws, hubVars, users, logins, fnVars>>
    \/ \E c \in TrackConvs : MgrTrackTask(c) /\ UNCHANGED <<ws, hubVars, users, logins, fnVars>>
    \/ \E t \in 1..MaxTasks : TaskDone(t) /\ UNCHANGED <<ws, hubVars, users, logins, fnVars>>
    \/ \E c \in TrackConvs : MgrCompleteTask(c) /\ UNCHANGED <<ws, hubVars, users, logins, fnVars>>
    \/ \E u \in Users, c \in TrackConvs :
            ConversationDelete(u, c) /\ UNCHANGED <<ws, hubVars, trackerVars, users, logins, fnVars>>

SpecTracker == Init /\ [][NextTracker]_vars

\* the store under the REST use cases of two users, with messages sent to
\* the conversations
StoreConvs == {1, 2}

NextStore ==
    \/ \E u \in Users : ConversationCreate(u)
            /\ UNCHANGED <<ws, hubVars, trackerVars, users, logins, fnVars>>
    \/ \E u \in Users, c \in StoreConvs : ConversationDelete(u, c)
            /\ UNCHANGED <<ws, hubVars, trackerVars, users, logins, fnVars>>
    \/ \E u \in Users, c \in StoreConvs, f \in Filenames : DocumentUpload(u, c, f)
            /\ UNCHANGED <<ws, hubVars, trackerVars, users, logins, fnVars>>
    \/ \E u \in Users, c \in StoreConvs :
            /\ Start(1, u, c, T_tool_unknown)
            /\ api' = [op |-> "send", user |-> u, arg |-> c, secret |-> "", result |-> "ok"]
            /\ UNCHANGED <<ws, hubVars, trackerVars, users, logins, fnVars>>
    \/ /\ Resume(1)
       /\ api' = [op |-> "resume", user |-> req[1].user, arg |-> conv[1], secret |-> "",
                  result |-> "ok"]
       /\ UNCHANGED <<ws, hubVars, trackerVars, users, logins, fnVars>>

SpecStore == Init /\ [][NextStore]_vars

\* logins, by registered and unregistered names with right and wrong
\* passwords
NextLogin ==
    \E username \in LoginNames, password \in LoginPasswords :
        Login(username, password)
            /\ UNCHANGED <<storeVars, configVars, invVars, ops, ws, hubVars, trackerVars,
                           fnVars>>

SpecLogin == Init /\ [][NextLogin]_vars

\* the document-focus predicate over stores of up to MaxPdfMsgs messages and
\* MaxPdfDocs documents
NextPdf ==
    \/ \E m \in PdfMessages : StoreAddMessage(m.c, m.content)
            /\ UNCHANGED <<ws, hubVars, trackerVars, users, logins, fnVars>>
    \/ \E d \in PdfDocuments : StoreAddDocument("u1", d.c, d.filename)
            /\ UNCHANGED <<ws, hubVars, trackerVars, users, logins, fnVars>>
    \/ \E c \in PdfConvs, text \in PdfTexts : AskPdfContext(c, text)
            /\ UNCHANGED <<ws, hubVars, trackerVars, users, logins, fnVars>>

SpecPdf == Init /\ [][NextPdf]_vars

\* _normalize_intent_dates on intents that name up to four dates, with and
\* without a year in the user's text
NextDates ==
    \E date \in NormDates, range_start, range_end \in {NoDate, DateOf(0, 0)},
       update_date \in NormOtherDates, user_text \in NormTexts :
        NormalizeCall([NoIntent EXCEPT !.action = "list", !.date = date,
                                       !.range_start = range_start,
                                       !.range_end = range_end,
                                       !.update = [NoUpdate EXCEPT !.date = update_date]],
                      user_text)
            /\ UNCHANGED <<ws, hubVars, trackerVars, apiVars>>

SpecDates == Init /\ [][NextDates]_vars

\* stream_messages consumed to its end, for every answer of up to
\* MaxResponseLen characters and every chunk size up to MaxChunkSize
NextStream ==
    \/ \E response \in Responses, chunk_size \in 1..MaxChunkSize :
            StreamMessagesOpen(response, chunk_size)
                /\ UNCHANGED <<ws, hubVars, trackerVars, apiVars>>
    \/ StreamMessagesYield /\ UNCHANGED <<ws, hubVars, trackerVars, apiVars>>
    \/ StreamMessagesEnd /\ UNCHANGED <<ws, hubVars, trackerVars, apiVars>>

SpecStream == Init /\ [][NextStream]_vars

\* tokens issued and decoded while time passes
NextJwt ==
    \/ \E data \in JwtData, expires_minutes \in JwtExpires :
            JwtCreate(data, expires_minutes) /\ UNCHANGED <<ws, hubVars, trackerVars, apiVars>>
    \/ JwtDecode /\ UNCHANGED <<ws, hubVars, trackerVars, apiVars>>
    \/ JwtTick /\ UNCHANGED <<ws, hubVars, trackerVars, apiVars>>

SpecJwt == Init /\ [][NextJwt]_vars

\* the calls of EventUseCase in any order, on ids the calendar holds, held and
\* never held, with a calendar that answers or raises
NextEvents ==
    \/ \E raised \in BOOLEAN : EventCreate("u1", raised)
            /\ UNCHANGED <<ws, hubVars, trackerVars, users, logins, fnVars>>
    \/ \E raised \in BOOLEAN : EventList("u1", raised)
            /\ UNCHANGED <<ws, hubVars, trackerVars, users, logins, fnVars>>
    \/ \E event_id \in EventArgs, raised \in BOOLEAN : EventGet("u1", event_id, raised)
            /\ UNCHANGED <<ws, hubVars, trackerVars, users, logins, fnVars>>
    \/ \E event_id \in EventArgs, title \in {NullStr, Title_nuevo}, raised \in BOOLEAN :
            EventUpdate("u1", event_id, title, raised)
                /\ UNCHANGED <<ws, hubVars, trackerVars, users, logins, fnVars>>
    \/ \E event_id \in EventArgs, raised \in BOOLEAN : EventDelete("u1", event_id, raised)
            /\ UNCHANGED <<ws, hubVars, trackerVars, users, logins, fnVars>>

SpecEvents == Init /\ [][NextEvents]_vars

\* one call of maybe_handle_calendar_llm on any calendar of up to
\* MaxCalEvents events
NextCalendar ==
    \/ \E id \in 1..MaxCalEvents : CalendarCreated(id)
            /\ UNCHANGED <<ws, hubVars, trackerVars, apiVars>>
    \/ \E id \in 1..MaxCalEvents : CalendarDeleted(id)
            /\ UNCHANGED <<ws, hubVars, trackerVars, apiVars>>
    \/ \E raw \in CalRawOutputs : \E fault \in CalFaultsFor(raw) :
            CalendarCall(raw, Title_cita, fault)
                /\ UNCHANGED <<ws, hubVars, trackerVars, apiVars>>

SpecCalendar == Init /\ [][NextCalendar]_vars

\* the functions of prompt_utils called on stores of up to MaxPdfMsgs
\* messages, with every max_history_messages up to MaxHistory
NextPrompt ==
    \/ \E m \in PromptMessages : StoreAddRoleMessage(m.c, m.role, m.content)
            /\ UNCHANGED <<ws, hubVars, trackerVars, apiVars, fnVars>>
    \/ \E c \in PdfConvs, n \in 0..MaxHistory : BuildMessagePayload(c, n)
            /\ UNCHANGED <<ws, hubVars, trackerVars, apiVars>>

SpecPrompt == Init /\ [][NextPrompt]_vars

\* build_pdf_focus_context on stores of up to MaxFocusDocs documents, with
\* and without earlier messages about a PDF, for texts that name a document,
\* speak of a PDF, or do neither
NextFocus ==
    \/ \E doc \in FocusDocuments : StoreAddDocumentAs(doc)
            /\ UNCHANGED <<ws, hubVars, trackerVars, apiVars, fnVars>>
    \/ StoreAddRoleMessage(1, "user", T_pdf)
            /\ UNCHANGED <<ws, hubVars, trackerVars, apiVars, fnVars>>
    \/ \E c \in PdfConvs, text \in {T_saludo, T_pdf, T_doc}, max_chars \in {2, 5} :
            BuildPdfFocusContext(c, text, max_chars)
                /\ UNCHANGED <<ws, hubVars, trackerVars, apiVars>>

SpecFocus == Init /\ [][NextFocus]_vars

(***************************************************************************)
(* What the properties below read off a state.                             *)
(***************************************************************************)
\* the messages an invocation has stored, in store order
MsgsBy(i) == LET Mine(m) == m.by = i IN SelectSeq(messages, Mine)

AssistantBy(i) == LET Mine(m) == m.by = i /\ m.role = "assistant" IN SelectSeq(messages, Mine)

\* their roles and contents
Exchange(i) == [k \in 1..Len(MsgsBy(i)) |-> <<MsgsBy(i)[k].role, MsgsBy(i)[k].content>>]

\* every message of the invocation is in its resolved conversation and is
\* listed there
InResolvedConversation(i) ==
    \A k \in 1..Len(MsgsBy(i)) :
        /\ MsgsBy(i)[k].conversation_id = conv[i]
        /\ Exists(conversations, conv[i]) =>
                \E j \in 1..Len(conversations[conv[i]].message_ids) :
                    conversations[conv[i]].message_ids[j] = MsgsBy(i)[k].id

CountOf(seq, x) == Cardinality({k \in 1..Len(seq) : seq[k] = x})

Made(i, call) == \E k \in 1..Len(calls[i]) : calls[i][k] = call

CalendarOps == {"list_events", "create_event", "update_event", "delete_event"}

\* the invocation is past conversation resolution
Resolved(i) == pc[i] # "idle" /\ conv[i] # 0

\* the marker, once execute is past the point where it yields it
MarkerIfPast(i) ==
    IF notify_on_complete /\ pc[i] \in {"yield_marker", "done"} THEN <<CompletionMarker>> ELSE <<>>

(***************************************************************************)
(* C1  Generic generation that completes: the fragments yielded, the       *)
(* completion marker aside, are the generator's fragments in order, and    *)
(* the invocation has stored exactly two messages in its conversation: the *)
(* user's text, then an assistant message whose content is the             *)
(* concatenation of the fragments.                                         *)
(***************************************************************************)
C1_GenerationCompletes ==
    \A i \in Inv :
        note[i].stream = "ended" =>
            /\ out[i] = gen[i] \o MarkerIfPast(i)
            /\ Exchange(i) = << <<"user", req[i].text>>, <<"assistant", Concat(gen[i])>> >>
            /\ InResolvedConversation(i)

C1_Witness ==
    \E i \in Inv :
        /\ note[i].stream = "ended" /\ pc[i] = "done"
        /\ gen[i] = <<ChunkAt(1), ChunkAt(2)>>
        /\ notify_on_complete

(***************************************************************************)
(* C2  A registered tool that returns R on "tool:<name>:<query>" or        *)
(* "tool:<name> <query>": the one reply fragment and the stored assistant  *)
(* content are both "Resultado de herramienta (<name>): R", and the        *)
(* invocation has stored exactly two messages, user then assistant.        *)
(***************************************************************************)
C2_ToolResult ==
    \A i \in Inv :
        note[i].tool = "ok" =>
            LET m == ToolMatch(req[i].text)
                reply == <<"Resultado de herramienta", " ", "(">> \o m.name
                            \o <<")", ":", " ">> \o EchoResult(m.query)
            IN  /\ m.matched /\ m.name \in tool_registry
                /\ req[i].text \in {T_tool_echo, T_tool_space} =>
                        reply = <<"Resultado de herramienta", " ", "(", "e", ")", ":", " ",
                                  "o", "k", ":", "h", "i">>
                /\ out[i] = <<reply>> \o MarkerIfPast(i)
                /\ Exchange(i) = << <<"user", req[i].text>>, <<"assistant", reply>> >>
                /\ InResolvedConversation(i)

C2_Witness ==
    \E i, j \in Inv :
        /\ note[i].tool = "ok" /\ pc[i] = "done" /\ req[i].text = T_tool_echo
        /\ note[j].tool = "ok" /\ pc[j] = "done" /\ req[j].text = T_tool_space

(***************************************************************************)
(* C3  A message in tool syntax naming a tool that is not registered:      *)
(* execute does not fail, its reply contains "Herramienta no encontrada",  *)
(* and it stores exactly one assistant message, that reply.                *)
(***************************************************************************)
C3_ToolNotFound ==
    \A i \in Inv :
        (Resolved(i) /\ ToolMatch(req[i].text).matched
                     /\ ToolMatch(req[i].text).name \notin tool_registry) =>
            /\ pc[i] \notin {"raised", "abandoned"}
            /\ Len(out[i]) >= 1
            /\ Contains(out[i][1], <<"Herramienta no encontrada">>)
            /\ Len(AssistantBy(i)) = 1
            /\ AssistantBy(i)[1].content = out[i][1]
            /\ out[i] = <<out[i][1]>> \o MarkerIfPast(i)

C3_Witness ==
    \E i \in Inv :
        /\ pc[i] = "done" /\ req[i].text = T_tool_unknown
        /\ Len(AssistantBy(i)) = 1

(***************************************************************************)
(* C4  A message in tool syntax ends after the tool stage whether the tool *)
(* is found, missing or failing: no intent classification, no calendar     *)
(* call and no generation call is made for it.                             *)
(***************************************************************************)
C4_ToolStageEnds ==
    \A i \in Inv :
        (Resolved(i) /\ ToolMatch(req[i].text).matched) =>
            /\ \A k \in 1..Len(calls[i]) : calls[i][k] = "tool_execute"
            /\ pc[i] \in {"tool_wait", "yield_reply", "yield_marker", "done"}
            /\ gen[i] = <<>>
            /\ note[i].parser = "unset" /\ note[i].stream = "unset"
            /\ Len(AssistantBy(i)) = IF pc[i] = "tool_wait" THEN 0 ELSE 1

C4_Witness ==
    \E i, j \in Inv :
        /\ pc[i] = "done" /\ note[i].tool = "failed"
        /\ pc[j] = "done" /\ note[j].tool = "notfound"
        /\ CalendarName \in tool_registry

(***************************************************************************)
(* C5  When the tool, the calendar dispatch or the generation stream       *)
(* raises, execute does not raise: it stores exactly one assistant message *)
(* holding the apology, yields that apology after whatever it had yielded, *)
(* and ends with the completion marker when notification is enabled.       *)
(***************************************************************************)
C5_Failed(i) == note[i].tool = "failed" \/ note[i].parser = "raise" \/ note[i].stream = "failed"

C5_Apology(i) ==
    IF note[i].tool = "failed"
    THEN <<"Error al ejecutar la herramienta", " ">> \o ToolMatch(req[i].text).name \o <<".">>
    ELSE IF note[i].parser = "raise" THEN CalendarApology
    ELSE GenerationApology

C5_ErrorsBecomeApologies ==
    \A i \in Inv :
        C5_Failed(i) =>
            /\ pc[i] \in {"yield_reply", "yield_marker", "done"}
            /\ Len(AssistantBy(i)) = 1
            /\ AssistantBy(i)[1].content = C5_Apology(i)
            /\ out[i] = (gen[i] \o <<C5_Apology(i)>>) \o MarkerIfPast(i)
            /\ InResolvedConversation(i)

C5_Witness ==
    \E i, j \in Inv :
        /\ pc[i] = "done" /\ note[i].stream = "failed" /\ Len(gen[i]) = 1
        /\ pc[j] = "done" /\ note[j].parser = "raise" /\ Made(j, "list_events")
        /\ notify_on_complete

(***************************************************************************)
(* C6  With notification enabled the completion marker is yielded exactly  *)
(* once, as the last fragment, and when the conversation was resolved the  *)
(* assistant message is stored before it is yielded; with notification     *)
(* disabled it is never yielded.                                           *)
(***************************************************************************)
C6_CompletionMarker ==
    \A i \in Inv :
        LET n == CountOf(out[i], CompletionMarker)
        IN  /\ ~notify_on_complete => n = 0
            /\ n <= 1
            /\ n = 1 =>
                /\ out[i][Len(out[i])] = CompletionMarker
                /\ pc[i] \in {"yield_marker", "done"}
                /\ conv[i] # 0 => Len(AssistantBy(i)) = 1
            /\ (pc[i] = "done" /\ notify_on_complete) => n = 1

C6_Witness ==
    \E i, j \in Inv :
        /\ pc[i] = "done" /\ note[i].stream = "ended" /\ Len(gen[i]) >= 1
        /\ pc[j] = "done" /\ note[j].tool = "unresolved"
        /\ CountOf(out[i], CompletionMarker) = 1
        /\ CountOf(out[j], CompletionMarker) = 1

(***************************************************************************)
(* C8  A message that is document-focused at dispatch skips the calendar   *)
(* parser: no intent classification and no calendar call is made for it,   *)
(* and it is answered by generic generation.                               *)
(***************************************************************************)
C8_DocumentFocusSkipsCalendar ==
    \A i \in Inv :
        /\ (Resolved(i) /\ ~ToolMatch(req[i].text).matched /\ IsPdfQuery(req[i].text)) =>
                note[i].pdf = "yes"
        /\ note[i].pdf = "yes" =>
            /\ ~Made(i, "generate_messages")
            /\ \A op \in CalendarOps : ~Made(i, op)
            /\ calls[i] = <<"stream_messages">>
            /\ pc[i] \in {"stream_wait", "yield_chunk", "yield_reply", "yield_marker", "done"}
            /\ pc[i] = "done" =>
                /\ Len(AssistantBy(i)) = 1
                /\ AssistantBy(i)[1].content =
                        IF note[i].stream = "ended" THEN Concat(gen[i]) ELSE GenerationApology

C8_Witness ==
    \E i, j \in Inv :
        /\ CalendarName \in tool_registry
        /\ pc[i] = "done" /\ note[i].pdf = "yes" /\ IsPdfQuery(req[i].text)
        /\ pc[j] = "done" /\ note[j].pdf = "yes" /\ ~IsPdfQuery(req[j].text)
        /\ note[j].stream = "ended"

(***************************************************************************)
(* C9  When the calendar parser returns no actionable intent (no JSON, an  *)
(* empty object, or an action that is none, null, empty or unrecognised),  *)
(* nothing is short-circuited: no calendar call is made, no calendar reply *)
(* is stored, the flow goes on to generic generation, and the single       *)
(* assistant message is what the stream produced (its concatenation, or    *)
(* the generation apology when the stream raised).                         *)
(***************************************************************************)
C9_NotActionable(raw) ==
    \/ raw.form \in {"empty", "prose", "broken"}
    \/ raw.value = "empty_object"
    \/ raw.value = "object" /\ raw.intent.action \in {"none", "null", "", "remind"}

C9_NoIntentFallsThrough ==
    /\ \A i \in Inv :
            pc[i] = "calendar_wait" =>
                \A raw \in {r \in RawOutputs : C9_NotActionable(r)} :
                    HandleCalendarAnswer(raw, req[i].text, events, NoFault) =
                        [kind |-> "none", reply |-> <<>>, events |-> events, calls |-> <<>>]
    /\ \A i \in Inv :
            (note[i].parser = "none" /\ Made(i, "generate_messages")) =>
                /\ calls[i] = <<"generate_messages", "stream_messages">>
                /\ pc[i] \in {"stream_wait", "yield_chunk"} => AssistantBy(i) = <<>>
                /\ note[i].stream = "unset" => AssistantBy(i) = <<>>
                /\ note[i].stream = "ended" =>
                        Exchange(i) = << <<"user", req[i].text>>,
                                         <<"assistant", Concat(gen[i])>> >>
                /\ note[i].stream = "failed" =>
                        Exchange(i) = << <<"user", req[i].text>>,
                                         <<"assistant", GenerationApology>> >>

C9_Witness ==
    \E i \in Inv :
        /\ note[i].parser = "none" /\ Made(i, "generate_messages")
        /\ pc[i] = "done" /\ note[i].stream = "ended"
        /\ gen[i] = <<ChunkAt(1), ChunkAt(2)>>

(***************************************************************************)
(* C7  Conversation resolution, at the step in which execute resolves: a   *)
(* supplied id that exists is used; a supplied id that is absent, or no id *)
(* and no tracked conversation still in the store, gives a conversation    *)
(* created for the user; no id and a tracked conversation gives that one.  *)
(* In every case the resolved conversation is then the user's active one   *)
(* and the user message is the message appended to it.                     *)
(***************************************************************************)
C7_Resolves(i) ==
    LET u == req'[i].user
        cid == req'[i].conversation_id
        c == conv'[i]
        tracked == u \in DOMAIN active_by_user /\ active_by_user[u] \in DOMAIN conversations
        user_message == messages'[Len(messages) + 1]
        created == /\ c = Cardinality(DOMAIN conversations) + 1
                   /\ conversations'[c].user_id = u
                   /\ conversations'[c].message_ids[1] = user_message.id
        used(d) == /\ c = d
                   /\ conversations'[c].user_id = conversations[d].user_id
                   /\ conversations'[c].message_ids[Len(conversations[d].message_ids) + 1]
                            = user_message.id
                   /\ SubSeq(conversations'[c].message_ids, 1, Len(conversations[d].message_ids))
                            = conversations[d].message_ids
    IN  /\ c \in DOMAIN conversations'
        /\ IF cid # 0
           THEN IF cid \in DOMAIN conversations THEN used(cid) ELSE created
           ELSE IF tracked THEN used(active_by_user[u]) ELSE created
        /\ active_by_user'[u] = c
        /\ Len(messages') > Len(messages)
        /\ user_message.role = "user" /\ user_message.content = req'[i].text
        /\ user_message.conversation_id = c /\ user_message.by = i
        /\ \A k \in 1..Len(messages) : messages'[k] = messages[k]

C7_ConversationResolution ==
    [][\A i \in Inv :
            (pc[i] = "idle" /\ pc'[i] # "idle" /\ note'[i].tool # "unresolved") => C7_Resolves(i)]_vars

C7_Witness ==
    \E i, j \in Inv :
        /\ Resolved(i) /\ req[i].conversation_id # 0 /\ conv[i] # req[i].conversation_id
        /\ Resolved(j) /\ req[j].conversation_id = 0 /\ req[j].user = req[i].user
        /\ conv[j] = conv[i] /\ i < j
        /\ active_by_user[req[j].user] = conv[j]
        /\ Len(conversations[conv[j]].message_ids) >= 2

(***************************************************************************)
(* C10  Closing a WebSocket while its answer is being streamed leaves the  *)
(* generation alone: once the invocation can take no further step, its     *)
(* assistant message is in the store.                                      *)
(***************************************************************************)
C10_GenerationSurvivesClose ==
    \A i \in Inv :
        (Resolved(i) /\ pc[i] \in {"done", "abandoned"}) => Len(AssistantBy(i)) = 1

(***************************************************************************)
(* C11  Two execute calls on one conversation at the same time: a call is  *)
(* accepted whatever the other call is doing, neither is cancelled and     *)
(* each can go on from wherever it waits; each stores its own user message *)
(* and, once finished, its own single assistant message, in the            *)
(* conversation both resolved to.                                          *)
(***************************************************************************)
InFlight(i) == pc[i] \notin {"idle", "done", "abandoned", "cancelled"}

UserBy(i) == LET Mine(m) == m.by = i /\ m.role = "user" IN SelectSeq(messages, Mine)

\* the step that takes the invocation on from where it waits
CanGoOn(i) ==
    CASE pc[i] = "tool_wait" -> ENABLED ToolReturn(i, TRUE)
      [] pc[i] = "calendar_wait" -> ENABLED CalendarCallFails(i)
      [] pc[i] = "stream_wait" -> ENABLED StreamEnd(i)
      [] OTHER -> ENABLED Resume(i)

C11_ConcurrentExecute ==
    \A i \in Inv :
        /\ (pc[i] = "idle" /\ \A j \in 1..(i - 1) : pc[j] # "idle")
                => \A text \in Texts : ENABLED Start(i, "u1", 0, text)
        /\ pc[i] \notin {"abandoned", "cancelled"}
        /\ (InFlight(i) /\ \E j \in Inv \ {i} : InFlight(j) /\ conv[j] = conv[i]) => CanGoOn(i)
        /\ Resolved(i) =>
                /\ Len(UserBy(i)) = 1
                /\ UserBy(i)[1].content = req[i].text
                /\ UserBy(i)[1].conversation_id = conv[i]
                /\ Len(AssistantBy(i)) <= 1
                /\ pc[i] = "done" =>
                        /\ Len(AssistantBy(i)) = 1
                        /\ AssistantBy(i)[1].conversation_id = conv[i]

\* both calls ran to the end on one conversation, and both user messages
\* were stored before either assistant message
C11_Witness ==
    /\ \A i \in Inv : pc[i] = "done" /\ Resolved(i) /\ conv[i] = conv[1]
    /\ Len(messages) = 4
    /\ messages[1].role = "user" /\ messages[2].role = "user"
    /\ messages[1].by # messages[2].by
    /\ messages[3].role = "assistant" /\ messages[4].role = "assistant"

(***************************************************************************)
(* C12  A connection whose handler is running holds exactly one            *)
(* subscription in the hub, on its conversation, and its notification task *)
(* has not been cancelled; once the handler has left, by the client's      *)
(* disconnect, a failed send or cancellation, its subscription is gone and *)
(* its notification task no longer runs; a rejected connection never had   *)
(* one.  The hub holds nothing else, and no empty list.                    *)
(***************************************************************************)
HandlerRuns(k) == ws[k].pc \in {"receive", "consume", "send_error"}

\* how many times the hub lists the subscription
TimesListed(s) ==
    LET Listed(c) == {n \in 1..Len(subscriptions[c]) : subscriptions[c][n] = s}
    IN  IF \E c \in DOMAIN subscriptions : Listed(c) # {}
        THEN Cardinality(UNION {{<<c, n>> : n \in Listed(c)} : c \in DOMAIN subscriptions})
        ELSE 0

C12_SubscriptionFollowsHandler ==
    /\ \A k \in Conns :
            /\ HandlerRuns(k) =>
                    /\ TimesListed(ws[k].subscription) = 1
                    /\ ws[k].subscription \in Range(Registered(subscriptions, ws[k].conversation_id))
                    /\ ws[k].task # "cancelled"
            /\ ws[k].pc = "exited" =>
                    /\ TimesListed(ws[k].subscription) = 0
                    /\ ws[k].task \in {"cancelled", "failed"}
            /\ ws[k].pc \in {"closed", "rejected"} =>
                    /\ ws[k].subscription = 0
                    /\ ws[k].task = "none"
    /\ \A c \in DOMAIN subscriptions :
            /\ subscriptions[c] # <<>>
            /\ \A n \in 1..Len(subscriptions[c]) :
                    \E k \in Conns : HandlerRuns(k) /\ ws[k].subscription = subscriptions[c][n]
    /\ \A k, j \in Conns :
            (HandlerRuns(k) /\ HandlerRuns(j) /\ k # j) => ws[k].subscription # ws[j].subscription

\* one handler has left while its answer was being produced, the other
\* still runs on the same conversation and is the hub's only subscriber
C12_Witness ==
    /\ ws[1].pc = "exited" /\ ws[1].task = "cancelled"
    /\ \E i \in Inv : pc[i] = "cancelled"
    /\ HandlerRuns(2) /\ ws[2].conversation_id = ws[1].conversation_id
    /\ subscriptions = [c \in {ws[2].conversation_id} |-> <<ws[2].subscription>>]
    /\ ws[2].subscription < ws[1].subscription

(***************************************************************************)
(* C13  notify_finished(c) puts exactly one "response_finished" at the end *)
(* of the queue of every subscription registered for c when it is called,  *)
(* several on one id included, and touches no other queue: not those of    *)
(* other ids, not those already unsubscribed; a subscription made later    *)
(* starts with an empty queue.  The registrations are left as they are.    *)
(***************************************************************************)
ListedFor(c) ==
    IF c \in DOMAIN subscriptions
    THEN {subscriptions[c][n] : n \in 1..Len(subscriptions[c])} ELSE {}

C13_NotifyStep ==
    api'.op = "notify_finished" =>
        /\ Len(subs') = Len(subs)
        /\ subscriptions' = subscriptions
        /\ \A s \in 1..Len(subs) :
                IF s \in ListedFor(api'.arg)
                THEN /\ Len(subs'[s].queue) = Len(subs[s].queue) + 1
                     /\ SubSeq(subs'[s].queue, 1, Len(subs[s].queue)) = subs[s].queue
                     /\ subs'[s].queue[Len(subs'[s].queue)] = "response_finished"
                ELSE subs'[s].queue = subs[s].queue

C13_SubscribeStep ==
    api'.op = "subscribe" =>
        /\ Len(subs') = Len(subs) + 1
        /\ subs'[Len(subs')].queue = <<>>
        /\ \A s \in 1..Len(subs) : subs'[s] = subs[s]

C13_NotifyReachesSubscribers == [][C13_NotifyStep /\ C13_SubscribeStep]_vars

\* two subscribers of conversation 1 have just been notified; the
\* subscriber of conversation 2 and a former subscriber of conversation 1
\* have empty queues
C13_Witness ==
    /\ api.op = "notify_finished" /\ api.arg = 1
    /\ Len(subs) = 4
    /\ \E a, b, x, y \in 1..4 :
            /\ a # b
            /\ ListedFor(1) = {a, b} /\ ListedFor(2) = {x}
            /\ subs[a].queue = <<"response_finished">>
            /\ subs[b].queue = <<"response_finished">>
            /\ subs[x].queue = <<>>
            /\ subs[y].conversation_id = 1 /\ y \notin ListedFor(1) /\ subs[y].queue = <<>>

(***************************************************************************)
(* C14  unsubscribe takes exactly the given subscription out of the list   *)
(* of its conversation: the others stay, in the order they were added, and *)
(* the queues are untouched; when it was the last one the entry of the     *)
(* conversation goes too, so no list is ever empty; a subscription that is *)
(* not registered changes nothing.                                         *)
(***************************************************************************)
Without(seq, x) == LET Keep(y) == y # x IN SelectSeq(seq, Keep)

C14_UnsubscribeStep ==
    api'.op = "unsubscribe" =>
        LET s == api'.arg
            c == subs[s].conversation_id
        IN  /\ subs' = subs
            /\ IF s \in ListedFor(c)
               THEN /\ \A d \in DOMAIN subscriptions \ {c} :
                            d \in DOMAIN subscriptions' /\ subscriptions'[d] = subscriptions[d]
                    /\ DOMAIN subscriptions' \subseteq DOMAIN subscriptions
                    /\ IF subscriptions[c] = <<s>>
                       THEN c \notin DOMAIN subscriptions'
                       ELSE /\ c \in DOMAIN subscriptions'
                            /\ subscriptions'[c] = Without(subscriptions[c], s)
                            /\ Len(subscriptions'[c]) = Len(subscriptions[c]) - 1
               ELSE subscriptions' = subscriptions

C14_NoEmptyList == \A c \in DOMAIN subscriptions' : subscriptions'[c] # <<>>

C14_UnsubscribeRemovesOne == [][C14_UnsubscribeStep /\ C14_NoEmptyList]_vars

\* the middle one of three subscribers of conversation 1 has just been
\* removed, and the only subscriber of conversation 2 before it
C14_Witness ==
    /\ api.op = "unsubscribe" /\ api.arg = 2
    /\ Len(subs) = 4
    /\ DOMAIN subscriptions = {1}
    /\ subscriptions[1] = <<1, 3>>
    /\ subs[2].conversation_id = 1 /\ subs[4].conversation_id = 2

(***************************************************************************)
(* C15  has_pending_response(c) holds exactly when a task is tracked for c *)
(* and that task has not finished.  complete_task(c) removes the task      *)
(* tracked for c, finished or not, and touches nothing else; with none     *)
(* tracked it changes nothing; after it get_task(c) gives nothing and      *)
(* has_pending_response(c) is false.                                       *)
(***************************************************************************)
C15_PendingIff ==
    \A c \in TrackConvs :
        HasPendingResponse(tasks_by_conversation', tasks', c)
            <=> \E t \in 1..Len(tasks') :
                    /\ c \in DOMAIN tasks_by_conversation'
                    /\ tasks_by_conversation'[c] = t
                    /\ ~tasks'[t].done

C15_CompleteStep ==
    api'.op = "complete_task" =>
        /\ GetTask(tasks_by_conversation', api'.arg) = 0
        /\ ~HasPendingResponse(tasks_by_conversation', tasks', api'.arg)
        /\ tasks' = tasks
        /\ \A d \in TrackConvs \ {api'.arg} :
                GetTask(tasks_by_conversation', d) = GetTask(tasks_by_conversation, d)
        /\ GetTask(tasks_by_conversation, api'.arg) = 0
                => tasks_by_conversation' = tasks_by_conversation

C15_TaskTracking == [][C15_PendingIff /\ C15_CompleteStep]_vars

\* complete_task has just removed a task that was still running, while the
\* other conversation keeps its finished task
C15_Witness ==
    /\ api.op = "complete_task" /\ api.arg = 1
    /\ Len(tasks) = 2
    /\ ~tasks[1].done /\ tasks[2].done
    /\ tasks_by_conversation = [c \in {2} |-> 2]

(***************************************************************************)
(* C16  The active pointer of a user is the last one written: a            *)
(* create_conversation or set_active_conversation for u makes u's pointer  *)
(* the conversation created or named, get_active_conversation(u) returns   *)
(* it as long as it exists, the pointers of the other users and every      *)
(* tracked task stay as they were, and no other operation of the manager   *)
(* or deletion moves a pointer.                                            *)
(***************************************************************************)
Pointer(active, u) == IF u \in DOMAIN active THEN active[u] ELSE 0

C16_WriteStep ==
    api'.op \in {"create_conversation", "set_active_conversation"} =>
        /\ Pointer(active_by_user', api'.user) = api'.arg
        /\ GetActiveConversation(conversations', active_by_user', api'.user)
                = IF Exists(conversations', api'.arg) THEN api'.arg ELSE 0
        /\ \A w \in Users \ {api'.user} :
                Pointer(active_by_user', w) = Pointer(active_by_user, w)
        /\ tasks_by_conversation' = tasks_by_conversation
        /\ tasks' = tasks

C16_OtherStep ==
    api'.op \notin {"create_conversation", "set_active_conversation"} =>
        \A w \in Users : Pointer(active_by_user', w) = Pointer(active_by_user, w)

C16_ActivePointer == [][C16_WriteStep /\ C16_OtherStep]_vars

\* u1, whose pointer was its own conversation 1, has just pointed at
\* conversation 2; u2's pointer and the tracked task are as before
C16_Witness ==
    /\ api.op = "set_active_conversation" /\ api.user = "u1" /\ api.arg = 2
    /\ Exists(conversations, 1) /\ conversations[1].user_id = "u1"
    /\ Exists(conversations, 2) /\ conversations[2].user_id = "u2"
    /\ Pointer(active_by_user, "u1") = 2 /\ Pointer(active_by_user, "u2") = 2
    /\ GetActiveConversation(conversations, active_by_user, "u1") = 2
    /\ GetTask(tasks_by_conversation, 1) # 0

(***************************************************************************)
(* C17  Every stored message names a conversation that the store holds.    *)
(***************************************************************************)
C17_MessagesReferenceConversations ==
    \A k \in 1..Len(messages) : Exists(conversations, messages[k].conversation_id)

(***************************************************************************)
(* C18  Every stored document with a conversation names a conversation     *)
(* that the store holds and that belongs to the document's user.           *)
(***************************************************************************)
C18_DocumentsReferenceOwnConversations ==
    \A k \in 1..Len(documents) :
        /\ Exists(conversations, documents[k].conversation_id)
        /\ conversations[documents[k].conversation_id].user_id = documents[k].user_id

(***************************************************************************)
(* C19  A delete of a conversation that the store does not hold, or that   *)
(* belongs to another user, raises ResourceNotFound and leaves the store   *)
(* as it was; a delete by the owner succeeds, and afterwards the           *)
(* conversation is neither listed for the user nor retrievable, the other  *)
(* conversations being untouched, so that a second delete of the id is a   *)
(* delete of a conversation the store does not hold.                       *)
(***************************************************************************)
C19_DeleteStep ==
    api'.op = "delete" =>
        LET u == api'.user
            c == api'.arg
        IN  IF c \in DOMAIN conversations /\ conversations[c].user_id = u
            THEN /\ api'.result = "ok"
                 /\ c \notin ConversationList(conversations', u)
                 /\ ~Retrievable(conversations', u, c)
                 /\ c \notin DOMAIN conversations'
                 /\ \A d \in DOMAIN conversations \ {c} :
                        d \in DOMAIN conversations' /\ conversations'[d] = conversations[d]
            ELSE /\ api'.result = "ResourceNotFound"
                 /\ storeVars' = storeVars

C19_DeleteNotFound == [][C19_DeleteStep]_vars

\* the owner's second delete of a conversation that had messages has just
\* failed, while the other user's conversation is still there
C19_Witness ==
    /\ api = [op |-> "delete", user |-> "u1", arg |-> 1, secret |-> "", result |-> "ResourceNotFound"]
    /\ ~Exists(conversations, 1)
    /\ \E k \in 1..Len(messages) : messages[k].conversation_id = 1 /\ req[1].user = "u1"
    /\ Exists(conversations, 2) /\ conversations[2].user_id = "u2"

(***************************************************************************)
(* C20  A login with a name the authentication service does not know ends  *)
(* in UserNotFound, one with a known name and another password in          *)
(* InvalidCredentials, and neither adds a user nor returns a token.  A     *)
(* login with the right password returns the token whose subject is the    *)
(* name, and afterwards the store holds the user: made by this login when  *)
(* the store did not hold it, and otherwise the very one it held.  The     *)
(* other users are never touched.                                          *)
(***************************************************************************)
IsToken(result) == \E u \in LoginNames : result = Token(u)

C20_LoginStep ==
    api'.op = "login" =>
        LET u == api'.user
            p == api'.secret
        IN  IF u \notin {"alice", "carol"}
            THEN /\ api'.result = "UserNotFound" /\ ~IsToken(api'.result)
                 /\ users' = users
            ELSE IF p # (IF u = "alice" THEN "secret" ELSE "pass2")
            THEN /\ api'.result = "InvalidCredentials" /\ ~IsToken(api'.result)
                 /\ users' = users
            ELSE /\ IsToken(api'.result) /\ TokenSubject(api'.result) = u
                 /\ u \in DOMAIN users'
                 /\ users'[u].id = u /\ users'[u].username = u
                 /\ IF u \in DOMAIN users
                    THEN users' = users
                    ELSE /\ users'[u].created_at = logins'
                         /\ DOMAIN users' = DOMAIN users \cup {u}
                         /\ \A w \in DOMAIN users : users'[w] = users[w]

C20_Login == [][C20_LoginStep]_vars

\* alice, whose user was made by the first login, has just logged in again
\* on the third call, and the store holds the user made then and no other
C20_Witness ==
    /\ api.op = "login" /\ api.user = "alice" /\ api.result = Token("alice")
    /\ logins = 3
    /\ DOMAIN users = {"alice"}
    /\ users["alice"].created_at = 1

(***************************************************************************)
(* C21  should_use_pdf_context(conversation, text) is true exactly when    *)
(* the text has one of the keywords pdf, documento, archivo, fichero,      *)
(* adjunto as a whole word in any case, or the conversation has a document *)
(* and either one of its last three messages has such a keyword or the     *)
(* name of one of its documents, a name that is not empty, occurs in the   *)
(* text in any case.                                                       *)
(***************************************************************************)
\* the word stands in the text from position lo on, whatever the case
StandsAt(text, lo, word) ==
    /\ lo + Len(word) - 1 <= Len(text)
    /\ \A j \in 1..Len(word) : LowerCh(text[lo + j - 1]) = LowerCh(word[j])

OccursNoCase(text, word) == \E lo \in 1..Len(text) : StandsAt(text, lo, word)

HasKeyword(text) ==
    \E lo \in 1..Len(text) : \E kw \in PdfKeywords :
        /\ StandsAt(text, lo, kw)
        /\ lo = 1 \/ text[lo - 1] \in NonWordChars
        /\ lo + Len(kw) - 1 = Len(text) \/ text[lo + Len(kw)] \in NonWordChars

\* positions in the store of the messages and the documents of a conversation
MsgPositions(c) == {k \in 1..Len(messages) : messages[k].conversation_id = c}
DocPositions(c) == {k \in 1..Len(documents) : documents[k].conversation_id = c}

\* among the last three of the conversation
Recent(c, k) == k \in MsgPositions(c) /\ Cardinality({j \in MsgPositions(c) : j > k}) < 3

C21_Expected(c, text) ==
    \/ HasKeyword(text)
    \/ /\ DocPositions(c) # {}
       /\ \/ \E k \in 1..Len(messages) : Recent(c, k) /\ HasKeyword(messages[k].content)
          \/ \E k \in DocPositions(c) :
                documents[k].filename # <<>> /\ OccursNoCase(text, documents[k].filename)

C21_AskStep ==
    api'.op = "should_use_pdf_context" =>
        (api'.result = "true") = C21_Expected(req'[1].conversation_id, req'[1].text)

C21_DocumentFocus == [][C21_AskStep]_vars

\* the conversation has a document and four messages, the first of which
\* mentions the PDF, and a plain text has just been found not to be about
\* the document
C21_Witness ==
    /\ api.op = "should_use_pdf_context" /\ api.result = "false" /\ api.arg = 1
    /\ req[1].text = T_saludo
    /\ DocPositions(1) # {}
    /\ Len(messages) = 4
    /\ \A k \in 1..4 : messages[k].conversation_id = 1
    /\ messages[1].content = T_pdf
    /\ \A k \in 2..4 : messages[k].content = T_saludo

(***************************************************************************)
(* C22.  Date re-anchoring.                                                *)
(***************************************************************************)
\* the same month and day in the current year, or in the next one when that
\* day is strictly before today
Reanchored(date) ==
    IF DateOf(ThisYear, date % YearLen) < Today
    THEN DateOf(ThisYear + 1, date % YearLen)
    ELSE DateOf(ThisYear, date % YearLen)

DateFields(intent) == <<intent.date, intent.range_start, intent.range_end, intent.update.date>>

\* C22: a call of _normalize_intent_dates returns; when the user's text has a
\* year token the intent comes back unchanged, and when it has none every date
\* of the intent (date, range_start, range_end, update.date) comes back as the
\* same month and day in the current year, or in the next year when that day
\* is strictly before today, a date that falls on today staying in the current
\* year.
C22_DatesReanchored ==
    norm.called =>
        /\ ~norm.raised
        /\ IF UserMentionsYear(norm.text) THEN norm.result = norm.intent
           ELSE \A k \in 1..4 :
                    ParsesAsDate(DateFields(norm.intent)[k]) =>
                        DateFields(norm.result)[k] = Reanchored(DateFields(norm.intent)[k])

(***************************************************************************)
(* C23.  stream_messages cuts the answer of generate_messages.             *)
(***************************************************************************)
RECURSIVE Joined(_)
Joined(fragments) ==
    IF fragments = <<>> THEN <<>> ELSE Head(fragments) \o Joined(Tail(fragments))

\* C23: for every answer of generate_messages and every chunk size of at
\* least one, the fragments stream_messages has yielded are each non-empty and
\* no longer than the chunk size, they join up to a prefix of the answer, and
\* when the stream ends they join up to the whole answer.
C23_StreamEqualsGenerate ==
    /\ \A k \in 1..Len(llm_stream.fragments) :
            /\ llm_stream.fragments[k] # <<>>
            /\ Len(llm_stream.fragments[k]) <= llm_stream.chunk_size
    /\ Len(Joined(llm_stream.fragments)) <= Len(llm_stream.response)
    /\ Joined(llm_stream.fragments)
            = SubSeq(llm_stream.response, 1, Len(Joined(llm_stream.fragments)))
    /\ llm_stream.pc = "done" => Joined(llm_stream.fragments) = llm_stream.response

\* a stream that ended after a full fragment and a shorter last one
C23_Witness ==
    /\ llm_stream.pc = "done"
    /\ Len(llm_stream.fragments) = 2
    /\ Len(llm_stream.fragments[1]) = llm_stream.chunk_size
    /\ Len(llm_stream.fragments[2]) < llm_stream.chunk_size
    /\ llm_stream.chunk_size > 1

EventOps == {"event_create", "event_list", "event_get", "event_update", "event_delete"}

C25_EventStep ==
    api'.op \in EventOps =>
        /\ api'.result \in {"ok", "ResourceNotFound", "ExternalServiceError"}
        /\ api'.secret = "RuntimeError" => api'.result = "ExternalServiceError"
        /\ (/\ api'.op \in {"event_get", "event_update", "event_delete"}
            /\ api'.secret = ""
            /\ api'.arg \notin EventIds(events)) => api'.result = "ResourceNotFound"
        /\ (/\ api.op = "event_delete" /\ api.result = "ok"
            /\ api'.op = "event_get" /\ api'.arg = api.arg /\ api'.secret = "")
                => api'.result = "ResourceNotFound"
        /\ api'.result = "ResourceNotFound"
                => api'.arg \notin EventIds(events) /\ events' = events

Persisted(i) ==
    IF ~Resolved(i) THEN 0 ELSE IF pc[i] = "done" THEN 2 ELSE 1

RECURSIVE PersistedUpTo(_)
PersistedUpTo(n) == IF n = 0 THEN 0 ELSE Persisted(n) + PersistedUpTo(n - 1)

C26_Stored ==
    /\ \A k \in 1..Len(messages) :
            /\ \A n \in 1..(k - 1) : messages[n].id < messages[k].id
            /\ messages[k].id = k
    /\ Len(messages) >= PersistedUpTo(MaxInv)
    /\ (\A i \in Inv : pc[i] \in {"idle", "done"}) => Len(messages) = PersistedUpTo(MaxInv)

C26_PersistStep ==
    /\ Len(messages') >= Len(messages)
    /\ SubSeq(messages', 1, Len(messages)) = messages
    /\ \A k \in (Len(messages) + 1)..Len(messages') :
            \A n \in 1..Len(messages) : messages'[k].id > messages[n].id

\* C26: under every interleaving of concurrent invocations, a message that is
\* persisted gets an id no stored message has, with a number greater than
\* that of every message stored before; no stored message is ever replaced;
\* and the store holds as many messages as were persisted.
C26_UniqueMessageIds == []C26_Stored /\ [][C26_PersistStep]_vars

\* two invocations on one conversation, the second started before the first
\* persisted its assistant message, both finished
C26_Witness ==
    /\ \A i \in Inv : pc[i] = "done" /\ Resolved(i) /\ conv[i] = conv[1]
    /\ Len(messages) = 2 * MaxInv
    /\ messages[1].by # messages[2].by
    /\ messages[Len(messages)].role = "assistant"

(***************************************************************************)
(* C27.  What is persisted is what was yielded.                            *)
(***************************************************************************)
\* the fragments an invocation has yielded, the completion marker aside
YieldedReply(i) ==
    LET NotMarker(fragment) == fragment # CompletionMarker IN SelectSeq(out[i], NotMarker)

\* C27: for every invocation that has completed with a resolved conversation,
\* whether it answered with a tool reply, a calendar reply, a generic stream,
\* or an error after some fragments were streamed, the content of the
\* assistant message it persisted is the concatenation of all the fragments
\* it yielded, the completion marker excluded.
C27_PersistedEqualsYielded ==
    \A i \in Inv :
        (pc[i] = "done" /\ Resolved(i)) =>
            /\ Len(AssistantBy(i)) = 1
            /\ AssistantBy(i)[1].content = Concat(YieldedReply(i))

(***************************************************************************)
(* C28.  Conversation ids.                                                 *)
(***************************************************************************)
C28_CreateStep ==
    /\ api'.op = "create" => api'.arg \notin DOMAIN conversations
    /\ (api'.op = "send" /\ api'.arg \notin DOMAIN conversations)
            => conv'[1] \notin DOMAIN conversations
    /\ \A c \in DOMAIN conversations \cap DOMAIN conversations' :
            /\ conversations'[c].user_id = conversations[c].user_id
            /\ Len(conversations'[c].message_ids) >= Len(conversations[c].message_ids)

\* C28: after any sequence of creations (by ConversationUseCase.create, or by
\* ConversationManager.create_conversation for a message that names no
\* existing conversation) and deletions, a creation never assigns the id of a
\* conversation the store holds, and so never replaces its record.
C28_CreateNeverReplaces == [][C28_CreateStep]_vars

(***************************************************************************)
(* C29.  A new conversation has no history.                                *)
(***************************************************************************)
C29_CreateStep ==
    api'.op = "create" =>
        /\ MessagesOf(messages', api'.arg) = <<>>
        /\ DocumentsOf(documents', api'.arg) = <<>>

\* C29: a conversation that has just been created, after earlier deletions
\* too, has an empty history: no message and no document is listed for its
\* id, so that what a deleted conversation held is not seen through a later
\* conversation, its own user's or another's.
C29_NewConversationEmpty == [][C29_CreateStep]_vars

(***************************************************************************)
(* C30.  Messages and pointers stay with the owner.                        *)
(***************************************************************************)
\* the messages a step appends to a conversation that was in the store come
\* from invocations of its owner
C30_AppendStep ==
    \A k \in (Len(messages) + 1)..Len(messages') :
        messages'[k].conversation_id \in DOMAIN conversations =>
            req'[messages'[k].by].user = conversations[messages'[k].conversation_id].user_id

\* a pointer that refers to a conversation of the store refers to one of the
\* user's own
C30_PointerOwned ==
    \A u \in DOMAIN active_by_user :
        active_by_user[u] \in DOMAIN conversations =>
            conversations[active_by_user[u]].user_id = u

\* C30: execute only ever appends messages to a conversation owned by the
\* acting user, and a user's active-conversation pointer only ever refers to
\* a conversation owned by that user: an invocation of user A that names, or
\* is routed to, a conversation of user B adds no message to it.
C30_OwnerOnly == []C30_PointerOwned /\ [][C30_AppendStep]_vars

(***************************************************************************)
(* What a call of maybe_handle_calendar_llm did to the calendar.           *)
(***************************************************************************)
\* the events the call deleted, and those it left with other fields
DeletedIds == EventIds(cal.before) \ EventIds(events)
ModifiedIds == {id \in EventIds(cal.before) \cap EventIds(events) :
                    EventById(events, id) # EventById(cal.before, id)}

\* the call reached the branch of an action with neither event id nor range
ByTitleOrDate(action) ==
    /\ cal.called /\ cal.reached
    /\ cal.intent.action = action
    /\ cal.intent.event_id = NoId
    /\ cal.intent.range_start = NoDate /\ cal.intent.range_end = NoDate

\* the title of an event contains the requested one, both normalized
TitleMatches(e, title) == Contains(Normalize(e.title), Normalize(title))

(***************************************************************************)
(* C31.  A requested title guards what is deleted or edited.               *)
(***************************************************************************)
\* C31: for a delete or edit intent that gives a title and neither event id
\* nor range, every event the call deletes or modifies has a normalized
\* (accent-stripped, lower-cased) title that contains the normalized
\* requested title; when no event's title matches, no event is deleted or
\* modified.
C31_OnlyMatchingTitles ==
    \A action \in {"delete", "edit"} :
        (ByTitleOrDate(action) /\ Truthy(cal.intent.title)) =>
            \A id \in DeletedIds \cup ModifiedIds :
                TitleMatches(EventById(cal.before, id), cal.intent.title)

(***************************************************************************)
(* C32.  An answer that holds no JSON object is no actionable intent.      *)
(***************************************************************************)
\* neither the text nor what stands between its first "{" and its last "}"
\* decodes to a JSON object
C32_NoObject(raw) ==
    /\ JsonLoads(RawText(raw)) \notin {"object", "empty_object"}
    /\ JsonLoads(ExtractJsonFromText(RawText(raw))) \notin {"object", "empty_object"}

\* C32: when the text the classification call answers is empty, or yields no
\* well-formed JSON object even from the first "{" to the last "}", the
\* parser returns "no actionable intent": it makes no calendar call, leaves
\* the calendar as it is and produces neither a reply nor an error, so that
\* the orchestrator goes on to generic generation; when the text is a JSON
\* object surrounded by prose, the object is parsed and acted upon as the
\* object alone is.
C32_NoObjectNoIntent ==
    cal.called =>
        /\ C32_NoObject(cal.raw) =>
                /\ cal.kind = "none" /\ cal.reply = <<>> /\ cal.calls = <<>>
                /\ events = cal.before
        /\ (cal.raw.form = "prose_json" /\ cal.raw.value = "object") =>
                LET alone == HandleCalendarAnswer([cal.raw EXCEPT !.form = "json"], cal.text,
                                                  cal.before, cal.fault)
                IN  /\ cal.kind = alone.kind /\ cal.reply = alone.reply
                    /\ cal.calls = alone.calls /\ events = alone.events

(***************************************************************************)
(* C33.  A bulk delete reports what it deleted.                            *)
(***************************************************************************)
\* the call answered as a bulk delete does
BulkReply == cal.called /\ cal.kind = "reply" /\ cal.reply # <<>> /\ cal.reply[1] = "Se eliminaron"

\* the events a bulk delete sets out to delete: those of the range, or the
\* candidates found by title and date
BulkCandidates ==
    IF Given(cal.intent.range_start) \/ Given(cal.intent.range_end)
    THEN InRange(cal.before, IntentRange(cal.intent))
    ELSE FindEventByTitleDate(cal.before, cal.intent.title, cal.intent.date).list

\* the events of the calendar before the call that the call deleted
DeletedEvents == LET Gone(e) == e.id \in DeletedIds IN SelectSeq(cal.before, Gone)

\* C33: in a bulk delete (a range, or several candidates found by title and
\* date) where deleting some events fails, the failure is caught for each
\* event and the remaining events are still attempted, and the reply reports
\* the successfully deleted events only: the count and the list both leave
\* out every event whose deletion failed.
C33_ReportsDeletedOnly ==
    BulkReply =>
        /\ CountOf(cal.calls, "delete_event") = Len(BulkCandidates)
        /\ DeletedIds = EventIds(BulkCandidates) \ cal.fault.delete
        /\ cal.reply = <<"Se eliminaron", " ", ToString(Cardinality(DeletedIds)), " ",
                         "eventos", ":", "\n">> \o FormatEvents(DeletedEvents)

(***************************************************************************)
(* C34.  Delete by title or date.                                          *)
(***************************************************************************)
\* the events left by the exact-date filter, which a date that does not
\* parse, or no date, leaves out
C34_Candidates ==
    LET OnDate(e) == DateOfInstant(e.starts_at) = cal.intent.date
    IN  IF Given(cal.intent.date) /\ ParsesAsDate(cal.intent.date)
        THEN SelectSeq(cal.before, OnDate) ELSE cal.before

C34_Matching ==
    {k \in 1..Len(C34_Candidates) : TitleMatches(C34_Candidates[k], cal.intent.title)}

\* C34: for a delete intent with neither event id nor range, whose list of
\* events the calendar returned: if no title is given and more than one
\* event remains after the optional exact-date filter, every such candidate
\* is deleted (every one whose delete_event did not fail) and the reply
\* reports how many were deleted; if a title is given and exactly one
\* candidate's normalized title contains it, exactly that one event is
\* deleted and no other event is touched.
C34_DeleteByTitleOrDate ==
    (ByTitleOrDate("delete") /\ ~cal.fault.list) =>
        /\ (~Truthy(cal.intent.title) /\ Len(C34_Candidates) > 1) =>
                /\ DeletedIds = EventIds(C34_Candidates) \ cal.fault.delete
                /\ ModifiedIds = {}
                /\ CountOf(cal.calls, "delete_event") = Len(C34_Candidates)
                /\ SubSeq(cal.reply, 1, 5) =
                        <<"Se eliminaron", " ", ToString(Cardinality(DeletedIds)), " ", "eventos">>
        /\ (Truthy(cal.intent.title) /\ Cardinality(C34_Matching) = 1) =>
                LET only == C34_Candidates[CHOOSE k \in C34_Matching : TRUE].id
                IN  /\ DeletedIds = {only} \ cal.fault.delete
                    /\ ModifiedIds = {}
                    /\ cal.calls = <<"list_events", "delete_event">>
                    /\ only \notin cal.fault.delete =>
                            cal.reply = <<"Evento eliminado", ":", " ", ToString(only), ".">>

\* a title written with other case and accent found its one event among
\* several, and that event alone is gone
C34_Witness ==
    /\ ByTitleOrDate("delete") /\ cal.fault = NoFault
    /\ cal.intent.title = Title_CITA
    /\ Len(C34_Candidates) > 2 /\ Cardinality(C34_Matching) = 1
    /\ DeletedIds = {2}

(***************************************************************************)
(* C35.  Create needs a date and a start time.                             *)
(***************************************************************************)
\* the events of the calendar that were not there before the call
CreatedEvents == LET New(e) == e.id \notin EventIds(cal.before) IN SelectSeq(events, New)

\* the classification answered a create intent
C35_CreateIntent ==
    cal.called /\ ParseCalendarIntent(cal.raw) = "object" /\ cal.raw.intent.action = "create"

\* the start the intent gives, its date re-anchored when the text names no year
C35_GivenStart ==
    CombineMadrid(NormalizeIntentDates(cal.raw.intent, cal.text).date, cal.raw.intent.start_time)

\* C35: for a create intent: if the date or the start time is missing, the
\* reply is a request for them and create is never called; if both are
\* present, create is called exactly once with the given start, and with an
\* end one hour after the start when no end time is given.
C35_CreateNeedsDateAndTime ==
    C35_CreateIntent =>
        IF ~Given(cal.raw.intent.date) \/ cal.raw.intent.start_time = NoTime
        THEN /\ cal.kind = "reply"
             /\ cal.reply = <<"Para agendar necesito fecha y hora", ".">>
             /\ cal.calls = <<>> /\ events = cal.before
        ELSE /\ cal.calls = <<"create_event">>
             /\ ~cal.fault.create =>
                    /\ Len(CreatedEvents) = 1
                    /\ CreatedEvents[1].starts_at = C35_GivenStart
                    /\ cal.raw.intent.end_time = NoTime =>
                            CreatedEvents[1].ends_at = C35_GivenStart + 1

(***************************************************************************)
(* C36.  An ambiguous edit edits nothing.                                  *)
(***************************************************************************)
\* what _find_event_by_title_date answered for the intent of the call
C36_Found == FindEventByTitleDate(cal.before, cal.intent.title, cal.intent.date)

\* the call reached the edit branch without an event id, the calendar
\* returned its events, and the resolution of the target gave several
C36_Ambiguous ==
    /\ cal.called /\ cal.reached /\ ~cal.fault.list
    /\ cal.intent.action = "edit" /\ cal.intent.event_id = NoId
    /\ C36_Found.kind = "many"

\* C36: for an edit intent without an event id whose target resolution
\* yields several candidates, nothing is edited: update_event is never
\* called, the calendar stays as it was, and the reply is the prompt that
\* asks for the id and lists the candidates, the first five of them at most.
C36_AmbiguousEditEditsNothing ==
    C36_Ambiguous =>
        LET shown == IF Len(C36_Found.list) < 5 THEN Len(C36_Found.list) ELSE 5
        IN  /\ cal.calls = <<"list_events">>
            /\ events = cal.before
            /\ cal.reply = <<"Encontre varios eventos", ".", " ", "Indica el id para editar", ":",
                             "\n">> \o FormatEvents(SubSeq(C36_Found.list, 1, shown))
            /\ CountOf(cal.reply, "\n") <= 5

\* an edit that names a change found six candidates
C36_Witness ==
    /\ C36_Ambiguous
    /\ Len(C36_Found.list) = 6
    /\ cal.intent.update.start_time = 11
    /\ cal.fault = NoFault

(***************************************************************************)
(* C37.  A conversation that cannot be resolved.                           *)
(***************************************************************************)
\* C37: when resolving the conversation raises, execute ends without
\* raising: it yields the apology for the conversation that could not be
\* started and then, when notification is enabled, the completion marker,
\* and nothing else; it calls no tool, no calendar and no generation
\* collaborator, and it stores no message, neither the user's nor an
\* assistant's.
C37_UnresolvedAborts ==
    \A i \in Inv :
        note[i].tool = "unresolved" =>
            /\ pc[i] \in {"yield_reply", "yield_marker", "done"}
            /\ out[i] = <<ResolveApology>> \o MarkerIfPast(i)
            /\ pc[i] = "yield_marker" => notify_on_complete
            /\ pc[i] = "done" =>
                    out[i] = <<ResolveApology>>
                                \o (IF notify_on_complete THEN <<CompletionMarker>> ELSE <<>>)
            /\ calls[i] = <<>> /\ gen[i] = <<>> /\ assistant_content[i] = <<>>
            /\ MsgsBy(i) = <<>>
            /\ conv[i] = 0

\* an invocation that could not resolve its conversation has ended after the
\* apology and the marker, beside one that stored its messages
C37_Witness ==
    \E i, j \in Inv :
        /\ pc[i] = "done" /\ note[i].tool = "unresolved"
        /\ out[i] = <<ResolveApology, CompletionMarker>>
        /\ pc[j] = "done" /\ Len(MsgsBy(j)) = 2

(***************************************************************************)
(* C38.  The history payload is the most recent messages.                  *)
(***************************************************************************)
\* a call of build_message_payload returns the last N messages
C38_PayloadStep ==
    (prompt' # prompt /\ prompt'.op = "payload") =>
        LET history == MessagesOf(messages, prompt'.conversation_id)
            size == IF Len(history) < prompt'.n THEN Len(history) ELSE prompt'.n
        IN  /\ Len(prompt'.payload) <= prompt'.n
            /\ Len(prompt'.payload) = size
            /\ \A k \in 1..size :
                    prompt'.payload[k] =
                        [role |-> history[Len(history) - size + k].role,
                         content |-> history[Len(history) - size + k].content]

\* C38: for every max_history_messages value N and every history of a
\* conversation, build_message_payload returns at most N entries: the role
\* and content of the N messages of that conversation inserted last (of all
\* of them when there are fewer), in insertion order, oldest first.
C38_PayloadIsMostRecent == [][C38_PayloadStep]_vars

(***************************************************************************)
(* C39.  The focus document.                                               *)
(***************************************************************************)
\* the content holds no readable character
C39_NoText(content) == \A k \in 1..Len(content) : content[k] \in {" ", "\n", "\t", "NUL"}

\* the filename of the document stands in the text, whatever the case
C39_Named(doc, text) == doc.filename # <<>> /\ OccursNoCase(text, doc.filename)

\* a call of build_pdf_focus_context for a document-focused message selects
\* a named document, or else the one with the highest identifier number
C39_FocusStep ==
    (prompt' # prompt /\ prompt'.op = "focus") =>
        LET docs == DocumentsOf(documents, prompt'.conversation_id)
            text == prompt'.text
            focused == /\ docs # <<>>
                       /\ ShouldUsePdfContext(messages, documents, prompt'.conversation_id, text)
        IN  /\ focused <=> prompt'.focus.kind # "none"
            /\ focused =>
                \E k \in 1..Len(docs) :
                    /\ docs[k].id = prompt'.focus.doc
                    /\ IF \E j \in 1..Len(docs) : C39_Named(docs[j], text)
                       THEN C39_Named(docs[k], text)
                       ELSE \A j \in 1..Len(docs) : docs[j].id <= docs[k].id
                    /\ SubSeq(prompt'.focus.block, 1, 3 + Len(docs[k].filename))
                            = <<"Documento", ":", " ">> \o docs[k].filename
                    /\ IF C39_NoText(docs[k].content)
                       THEN /\ prompt'.focus.kind = "fallback"
                            /\ prompt'.focus.block[Len(prompt'.focus.block)] = FocusFallback[1]
                       ELSE prompt'.focus.kind = "content"

\* C39: the focus document of a document-focused message: if the filename of
\* some document of the conversation occurs in the user's text, case aside,
\* such a document is selected; otherwise the document whose identifier ends
\* with the highest number; and when the selected document's extracted
\* content is empty, the focus block is the explanatory fallback text, not
\* an empty block.
C39_FocusSelection == [][C39_FocusStep]_vars

\* the text names no document, the document with the highest number is
\* listed first, and having no text it gets the fallback block
C39_Witness ==
    /\ prompt.op = "focus" /\ prompt.conversation_id = 1
    /\ prompt.focus.kind = "fallback" /\ prompt.focus.doc = 3
    /\ Len(DocumentsOf(documents, 1)) >= 2
    /\ DocumentsOf(documents, 1)[1].id = 3

(***************************************************************************)
(* C40  On a WebSocket connection every message with text that the handler *)
(* takes is notified exactly once: when the handler is through with the    *)
(* message, notify_finished has been called once for it on the             *)
(* connection's conversation id, and at that call execute was exhausted,   *)
(* its assistant message was stored and every fragment it yielded, the     *)
(* completion marker included, had been sent.  A frame that is no JSON or  *)
(* carries no text is answered with one error frame and nothing else:      *)
(* execute is not called, nothing is stored and nobody is notified.        *)
(***************************************************************************)
\* the step calls notify_finished for the message the handler is on, after
\* persistence and after the last fragment
C40_NotifyStep(k) ==
    LET i == ws[k].inv
    IN  /\ i # 0
        /\ i \notin Range(ws[k].finished)
        /\ ws'[k].finished = Append(ws[k].finished, i)
        /\ pc[i] = "done"
        /\ Len(AssistantBy(i)) = 1
        /\ ws[k].sent = Len(out[i])
        /\ notify_on_complete => (out[i] # <<>> /\ out[i][Len(out[i])] = CompletionMarker)
        /\ UNCHANGED <<messages, out>>
        /\ \A s \in 1..Len(subs) :
                subs'[s].queue =
                    IF s \in Range(Registered(subscriptions, ws[k].conversation_id))
                    THEN Append(subs[s].queue, Sentinel) ELSE subs[s].queue

\* the frame being answered is no JSON, or an object whose text is blank
C40_NoText(frame) ==
    \/ frame.form = "garbage"
    \/ /\ frame.form = "object"
       /\ LET chosen == IF frame.text \notin {NullStr, <<>>} THEN frame.text
                        ELSE IF frame.message \notin {NullStr, <<>>} THEN frame.message
                        ELSE <<>>
          IN  \A n \in 1..Len(chosen) : chosen[n] \in {" ", "\n", "\t"}

C40_Step ==
    \A k \in Conns :
        /\ ws'[k].finished # ws[k].finished => C40_NotifyStep(k)
        /\ (ws[k].inv # 0 /\ ws'[k].inv # ws[k].inv)
                => Len(SelectSeq(ws'[k].finished, LAMBDA j : j = ws[k].inv)) = 1
        /\ (ws[k].pc = "receive" /\ ws'[k].pc = "consume")
                => \E n \in 1..Len(req'[ws'[k].inv].text) :
                        req'[ws'[k].inv].text[n] \notin {" ", "\n", "\t"}
        /\ (ws[k].pc = "receive" /\ ws'[k].pc = "send_error")
                => /\ C40_NoText(ws'[k].frame)
                   /\ UNCHANGED <<storeVars, invVars, subs>>
        /\ (ws[k].pc = "send_error" /\ ws'[k].pc # "send_error")
                => /\ C40_NoText(ws[k].frame)
                   /\ UNCHANGED <<storeVars, invVars, subs>>
                   /\ ws'[k].sent = ws[k].sent /\ ws'[k].finished = ws[k].finished
                   /\ ws'[k].pc = "receive" => Len(ws'[k].errors) = Len(ws[k].errors) + 1

\* C40: on a WebSocket connection every message with text is notified
\* exactly once, after its assistant message is stored and every fragment,
\* the completion marker included, is sent; a frame that is no JSON or has
\* no text is answered with an error frame only: no call of execute, no
\* stored message, no notification.
C40_NotifiedOncePerMessage == [][C40_Step]_vars
====
